---------------------------- MODULE Spec2Model ----------------------------
(***************************************************************************)
(* Bill / inventory report generator (PDF-Gen-TTL).                        *)
(*                                                                         *)
(* The repository holds several copies of the export service.  Three of    *)
(* them differ in the logic modelled here and are told apart by the        *)
(* variable `variant`:                                                     *)
(*   "current" - src/unnamed/part_001 (ExcelJS, clamped row height)        *)
(*   "tiered"  - src/services/reportService.ts lines 1-441 (four sizing    *)
(*               tiers, SheetJS grid); lines 443-785 and 787-1303 of the   *)
(*               same file repeat its PDF renderer unchanged               *)
(*   "app"     - src/App.tsx lines 649-1105 (three sizing tiers, ExcelJS)  *)
(*                                                                         *)
(* Numbers.  A JavaScript number is modelled as a record of kind "num"     *)
(* holding an integer count of quarters (q = 4 * value) or as NaN.  Every  *)
(* input number of the model is a multiple of 1/2, so every product is a   *)
(* multiple of 1/4 and binary64 arithmetic on these values is exact.       *)
(* Lengths of the PDF layout are millimetres; a quotient is kept as a      *)
(* fraction [n, d].                                                        *)
(*                                                                         *)
(* Specifications.                                                         *)
(*   Spec       - the form at rest and one export run, with the PDF        *)
(*                placement and the spreadsheet grid in full               *)
(*   SpecTotals - calculateTotals and the row builders on arbitrary item   *)
(*                collections                                              *)
(*   SpecRuns   - two invocations of handleGenerate overlapping with each  *)
(*                other and with form edits, renderer failures included    *)
(*   SpecForm   - the form handlers with several calls batched before a    *)
(*                render, and the guards of handleGenerate                 *)
(*   SpecRunsLive - the export runs alone, every pending promise settling  *)
(*                (weak fairness), for the termination of a run            *)
(***************************************************************************)
EXTENDS Integers, Sequences, FiniteSets, TLC

VARIABLES
    variant,    \* which copy of the export service is built
    header,     \* ReportHeader held by the form
    items,      \* LineItem[] held by the form
    nextId,     \* stands for crypto.randomUUID(): the next fresh id
    lastAlert,  \* the last alert() shown by handleGenerate ("" if none)
    pc,         \* position of the export run
    totals,     \* Totals computed by calculateTotals for the run
    baseFilename, \* base filename derived by generateReports
    layout,     \* (rowCount, fontSize, cellPadding, minCellHeight) of the PDF
    pdfRows,    \* body rows handed to autoTable (item rows, then the footer)
    pdf,        \* outcome of the PDF drawing: table end, pages, signature
    grid,       \* rows of the spreadsheet grid, in order
    gridStyles, \* per row of the grid, the row styles applied to its cells
    worksheet,  \* the cell styles and the merged ranges of the grid
    pending,    \* state updaters queued by the handlers, applied at the next render
    edits,      \* number of handler calls so far (bounds SpecForm and SpecRuns)
    runs,       \* per invocation of handleGenerate: its position, arguments, locals
    downloads   \* the files handed to the browser so far, in order

vars == <<variant, header, items, nextId, lastAlert, pc, totals, baseFilename,
          layout, pdfRows, pdf, grid, gridStyles, worksheet, pending, edits, runs, downloads>>

Variants == {"current", "tiered", "app"}

-----------------------------------------------------------------------------
(* Bounds of the model *)

\* Largest number of rows the form grows to in Spec.
MaxFormRows == 30

\* Largest number of items of an input collection in SpecTotals.
MaxItems == 2

-----------------------------------------------------------------------------
(* JavaScript values *)

Num(q) == [t |-> "num", q |-> q, s |-> ""]
NaN    == [t |-> "nan", q |-> 0, s |-> ""]
Str(s) == [t |-> "str", q |-> 0, s |-> s]
Undef  == [t |-> "undefined", q |-> 0, s |-> ""]
Null   == [t |-> "null", q |-> 0, s |-> ""]
\* A number formatted with two decimals: h is the value in hundredths.
Dec(h) == [t |-> "dec", q |-> h, s |-> ""]
Zero   == Num(0)

\* Number("..."): the numeric value of the strings of the model.
StringToNumber(s) ==
    CASE s = ""    -> Zero
      [] s = " "   -> Zero
      [] s = "1.5" -> Num(6)
      [] s = "5"   -> Num(20)
      [] OTHER     -> NaN

\* Number(x)
Number(x) ==
    CASE x.t = "num"       -> x
      [] x.t = "nan"       -> NaN
      [] x.t = "str"       -> StringToNumber(x.s)
      [] x.t = "null"      -> Zero
      [] OTHER             -> NaN

\* x || 0 for a number x: 0 and NaN are falsy.
OrZero(x) == IF x.t = "nan" \/ x.q = 0 THEN Zero ELSE x

\* Number(x) || 0
Coerce(x) == OrZero(Number(x))

\* a + b and a * b on numbers
Add(a, b) == IF a.t = "nan" \/ b.t = "nan" THEN NaN ELSE Num(a.q + b.q)
Mul(a, b) == IF a.t = "nan" \/ b.t = "nan" THEN NaN ELSE Num((a.q * b.q) \div 4)

\* x.toFixed(2): two decimals; a quarter is 25 hundredths, so no digit is lost.
ToFixed2(x) == IF x.t = "nan" THEN Str("NaN") ELSE Dec(x.q * 25)

\* x.toLocaleString(undefined, {minimumFractionDigits: 2}): the values of the
\* model have at most two decimals, so the digits are those of toFixed(2).
ToLocale2(x) == IF x.t = "nan" THEN Str("NaN") ELSE Dec(x.q * 25)

-----------------------------------------------------------------------------
(* Line items *)

\* The item addNewRow and the initial form state create.
BlankItem(id) ==
    [id |-> id, fabricCode |-> "", itemDescription |-> "", color |-> "",
     hsCode |-> "", rcvdDate |-> "", challanNo |-> "", piNumber |-> "",
     unit |-> "YDS", invoiceQty |-> Zero, rcvdQty |-> Zero,
     unitPrice |-> Zero, appstremeNo |-> ""]

\* calculateTotals with the accumulator dropped: each item overwrites the sums.
calculateTotals_overwrite(its) ==
    IF its = << >>
    THEN [totalInvoiceQty |-> Zero, totalRcvdQty |-> Zero, totalValue |-> Zero]
    ELSE [totalInvoiceQty |-> Coerce(its[Len(its)].invoiceQty),
          totalRcvdQty    |-> Coerce(its[Len(its)].rcvdQty),
          totalValue      |-> Mul(Coerce(its[Len(its)].invoiceQty),
                                  Coerce(its[Len(its)].unitPrice))]

\* calculateTotals without the `|| 0` coercion.
RECURSIVE calculateTotals_uncoerced(_)
calculateTotals_uncoerced(its) ==
    IF its = << >>
    THEN [totalInvoiceQty |-> Zero, totalRcvdQty |-> Zero, totalValue |-> Zero]
    ELSE LET acc  == calculateTotals_uncoerced(SubSeq(its, 1, Len(its) - 1))
             item == its[Len(its)]
         IN  [totalInvoiceQty |-> Add(acc.totalInvoiceQty, Number(item.invoiceQty)),
              totalRcvdQty    |-> Add(acc.totalRcvdQty, Number(item.rcvdQty)),
              totalValue      |-> Add(acc.totalValue,
                                      Mul(Number(item.invoiceQty),
                                          Number(item.unitPrice)))]

\* items.reduce((acc, item) => ..., {0, 0, 0}): a left fold, so the last item
\* is the last one added.
RECURSIVE calculateTotals(_)
calculateTotals(its) ==
    IF its = << >>
    THEN [totalInvoiceQty |-> Zero, totalRcvdQty |-> Zero, totalValue |-> Zero]
    ELSE LET acc  == calculateTotals(SubSeq(its, 1, Len(its) - 1))
             item == its[Len(its)]
         IN  [totalInvoiceQty |-> Add(acc.totalInvoiceQty, Coerce(item.invoiceQty)),
              totalRcvdQty    |-> Add(acc.totalRcvdQty, Coerce(item.rcvdQty)),
              totalValue      |-> Add(acc.totalValue,
                                      Mul(Coerce(item.invoiceQty),
                                          Coerce(item.unitPrice)))]


-----------------------------------------------------------------------------
(* Strings and dates *)

\* s.trim() on the strings of the model
Trim(s) == IF s = " " THEN "" ELSE s

\* formatDateForReport / formatDate: DD-Mon-YYYY, "" for an empty date and the
\* input itself for a string that is no date.
formatDateForReport(d) ==
    CASE d = ""           -> ""
      [] d = "2024-03-15" -> "15-Mar-2024"
      [] d = "2024-01-02" -> "02-Jan-2024"
      [] OTHER            -> d

\* Math.round(x): the nearest integer, halves rounded up (x >= 0 here).
MathRound(x) == IF x.t = "nan" THEN NaN ELSE Num(4 * ((x.q + 2) \div 4))

\* `${x}` for the result of Math.round: the decimal digits of the integer.
IntegerToString(x) == IF x.t = "nan" THEN "NaN" ELSE ToString(x.q \div 4)

\* getFilenameDate of ../utils, which the sources import and do not contain:
\* a filename-safe token derived from the billing date.  The token's format is
\* not known; it is kept apart from the date it is derived from.
getFilenameDate(d) == "<" \o d \o ">"

-----------------------------------------------------------------------------
(* Fractions of millimetres *)

Frac(n, d)    == [n |-> n, d |-> d]
FracLeq(a, b) == a.n * b.d <= b.n * a.d
FracLt(a, b)  == a.n * b.d < b.n * a.d
FracMax(a, b) == IF FracLeq(a, b) THEN b ELSE a
FracMin(a, b) == IF FracLeq(a, b) THEN a ELSE b

-----------------------------------------------------------------------------
(* PDF layout: generatePDF, layout constants and dynamic sizing *)

\* doc.internal.pageSize.getHeight() of a landscape A4 page, in mm
pageHeight == 210

infoBlockY(v) == IF v = "current" THEN 26 ELSE 32
lineHeight(v) == IF v = "current" THEN 6 ELSE 5

tableStartY(v) ==
    CASE v = "current" -> infoBlockY(v) + (lineHeight(v) * 5) + 4
      [] v = "tiered"  -> infoBlockY(v) + (lineHeight(v) * 4) + 4
      [] v = "app"     -> infoBlockY(v) + (lineHeight(v) * 5) + 2

signatureHeight(v) == IF v = "current" THEN 10 ELSE 20
bottomMargin(v)    == IF v = "current" THEN 7 ELSE 8
signatureBlockY(v) == pageHeight - signatureHeight(v) - bottomMargin(v)

\* signatureGap / signatureGapSize / the literal 25: the gap kept free between
\* the table budget and the signature block
signatureGap(v) ==
    CASE v = "current" -> 20
      [] v = "tiered"  -> 35
      [] v = "app"     -> 25

\* availableTableHeight ("current") / maxTableHeight ("tiered", "app")
maxTableHeight(v) == signatureBlockY(v) - tableStartY(v) - signatureGap(v)

\* rowCount with the totals row left out
rowCount_noFooter(v, its) == Len(its) + (IF v = "tiered" THEN 1 ELSE 0)

\* rowCount: items + footer, and in "tiered" the head row as well
rowCount(v, its) == Len(its) + (IF v = "tiered" THEN 2 ELSE 1)

\* fontSize with the tiers in the wrong order: the smallest font for few rows
fontSize_inverted(v, rc) ==
    CASE v = "current" -> IF rc > 20 THEN 8 ELSE 7
      [] v = "tiered"  -> IF rc <= 5 THEN 7
                          ELSE IF rc <= 15 THEN 8
                          ELSE IF rc <= 25 THEN 9 ELSE 10
      [] v = "app"     -> IF rc <= 10 THEN 7 ELSE IF rc > 25 THEN 9 ELSE 8

\* fontSize / finalFontSize
fontSize(v, rc) ==
    CASE v = "current" -> IF rc > 20 THEN 7 ELSE 8
      [] v = "tiered"  ->
            LET f == IF rc <= 5 THEN 10
                     ELSE IF rc <= 15 THEN 9
                     ELSE IF rc <= 25 THEN 8 ELSE 7
            IN  IF f < 5 THEN 5 ELSE f
      [] v = "app"     -> IF rc <= 10 THEN 9 ELSE IF rc > 25 THEN 7 ELSE 8

\* cellPadding / finalCellPadding, in hundredths of a millimetre
cellPadding(v, rc) ==
    CASE v = "current" -> IF rc > 20 THEN 80 ELSE 120
      [] v = "tiered"  -> IF rc <= 5 THEN 200
                          ELSE IF rc <= 15 THEN 175
                          ELSE IF rc <= 25 THEN 150 ELSE 100
      [] v = "app"     -> 120

\* minCellHeight with the floor of the largest tier raised above the tier
\* before it
minCellHeight_raisedFloor(v, rc) ==
    CASE v = "current" -> IF rc > 20 THEN Frac(13, 1)
                          ELSE FracMax(Frac(6, 1),
                                   FracMin(Frac(12, 1), Frac(maxTableHeight(v), rc)))
      [] v = "tiered"  -> IF rc <= 5 THEN Frac(maxTableHeight(v), rc)
                          ELSE IF rc <= 15
                               THEN FracMax(Frac(8, 1), Frac(maxTableHeight(v), rc))
                          ELSE IF rc <= 25
                               THEN FracMax(Frac(6, 1), Frac(maxTableHeight(v), rc))
                          ELSE Frac(7, 1)
      [] v = "app"     -> IF rc <= 10 THEN Frac(10, 1)
                          ELSE IF rc > 25 THEN Frac(7, 1) ELSE Frac(6, 1)

\* minCellHeight with the upper clamp Math.min(12, ...) of "current" left out
minCellHeight_noCap(v, rc) ==
    CASE v = "current" -> FracMax(Frac(6, 1), Frac(maxTableHeight(v), rc))
      [] v = "tiered"  ->
            LET h == IF rc <= 5 THEN Frac(maxTableHeight(v), rc)
                     ELSE IF rc <= 15
                          THEN FracMax(Frac(8, 1), Frac(maxTableHeight(v), rc))
                     ELSE IF rc <= 25
                          THEN FracMax(Frac(6, 1), Frac(maxTableHeight(v), rc))
                     ELSE FracMax(Frac(5, 1), Frac(maxTableHeight(v), rc))
            IN  FracMax(Frac(5, 1), h)
      [] v = "app"     ->
            IF rc <= 10 THEN Frac(10, 1)
            ELSE IF rc > 25 THEN Frac(5, 1) ELSE Frac(6, 1)

\* rowHeight / finalMinCellHeight: the minCellHeight handed to autoTable
minCellHeight(v, rc) ==
    CASE v = "current" ->
            FracMax(Frac(6, 1), FracMin(Frac(12, 1), Frac(maxTableHeight(v), rc)))
      [] v = "tiered"  ->
            LET h == IF rc <= 5 THEN Frac(maxTableHeight(v), rc)
                     ELSE IF rc <= 15
                          THEN FracMax(Frac(8, 1), Frac(maxTableHeight(v), rc))
                     ELSE IF rc <= 25
                          THEN FracMax(Frac(6, 1), Frac(maxTableHeight(v), rc))
                     ELSE FracMax(Frac(5, 1), Frac(maxTableHeight(v), rc))
            IN  FracMax(Frac(5, 1), h)
      [] v = "app"     ->
            IF rc <= 10 THEN Frac(10, 1)
            ELSE IF rc > 25 THEN Frac(5, 1) ELSE Frac(6, 1)

\* The sizing generatePDF hands to autoTable.
pdfLayout(v, its) ==
    LET rc == rowCount(v, its)
    IN  [rowCount      |-> rc,
         fontSize      |-> fontSize(v, rc),
         cellPadding   |-> cellPadding(v, rc),
         minCellHeight |-> minCellHeight(v, rc)]

NoLayout == [rowCount |-> 0, fontSize |-> 0, cellPadding |-> 0,
             minCellHeight |-> Frac(0, 1)]


-----------------------------------------------------------------------------
(* PDF table body: generatePDF, tableRows and the footer row *)

\* The description cell of a PDF row.
pdfDescription(v, item) ==
    CASE v = "current" ->
            item.itemDescription \o
            (IF item.color # "" THEN "\n(Color: " \o item.color \o ")" ELSE "")
      [] v = "tiered" ->
            LET c == (item.color # "" /\ Trim(item.color) # "")
                h == (item.hsCode # "" /\ Trim(item.hsCode) # "")
            IN  item.itemDescription \o
                (IF c \/ h THEN "\n" ELSE "") \o
                (IF c THEN "Color: " \o item.color ELSE "") \o
                (IF c /\ h THEN ", " ELSE "") \o
                (IF h THEN "H.S Code: " \o item.hsCode ELSE "")
      [] v = "app" ->
            LET c == Trim(item.color) # ""
                h == Trim(item.hsCode) # ""
            IN  item.itemDescription \o
                (IF c \/ h THEN "\n(" ELSE "") \o
                (IF c THEN "Color: " \o item.color ELSE "") \o
                (IF c /\ h THEN ", " ELSE "") \o
                (IF h THEN "HS: " \o item.hsCode ELSE "") \o
                (IF c \/ h THEN ")" ELSE "")

\* One element of items.map(item => [...]): the eleven cells of an item row.
pdfItemRow(v, item) ==
    CASE v = "current" ->
            << Str(item.fabricCode), Str(pdfDescription(v, item)),
               Str(formatDateForReport(item.rcvdDate)),
               Str(item.challanNo), Str(item.piNumber), Str(item.unit),
               ToLocale2(Number(item.invoiceQty)),
               ToLocale2(Number(item.rcvdQty)),
               ToFixed2(Number(item.unitPrice)),
               ToLocale2(Mul(Number(item.invoiceQty), Number(item.unitPrice))),
               Str(item.appstremeNo) >>
      [] v = "tiered" ->
            << Str(item.fabricCode), Str(pdfDescription(v, item)),
               Str(item.rcvdDate),
               Str(item.challanNo), Str(item.piNumber), Str(item.unit),
               Coerce(item.invoiceQty),
               Coerce(item.rcvdQty),
               ToFixed2(Coerce(item.unitPrice)),
               ToFixed2(Mul(Coerce(item.invoiceQty), Coerce(item.unitPrice))),
               Str(item.appstremeNo) >>
      [] v = "app" ->
            << Str(item.fabricCode), Str(pdfDescription(v, item)),
               Str(formatDateForReport(item.rcvdDate)),
               Str(item.challanNo), Str(item.piNumber), Str(item.unit),
               ToLocale2(Coerce(item.invoiceQty)),
               ToLocale2(Coerce(item.rcvdQty)),
               ToFixed2(Coerce(item.unitPrice)),
               ToLocale2(Mul(Coerce(item.invoiceQty), Coerce(item.unitPrice))),
               Str(item.appstremeNo) >>

\* The footer row pushed after the item rows.
pdfFooterRow(v, tot) ==
    << Str(""), Str(""), Str(""), Str(""), Str(""),
       Str(IF v = "current" THEN "TOTAL" ELSE "TOTAL:"),
       IF v = "tiered" THEN ToFixed2(tot.totalInvoiceQty)
                       ELSE ToLocale2(tot.totalInvoiceQty),
       IF v = "tiered" THEN ToFixed2(tot.totalRcvdQty)
                       ELSE ToLocale2(tot.totalRcvdQty),
       Str(""),
       IF v = "tiered" THEN ToFixed2(tot.totalValue)
                       ELSE ToLocale2(tot.totalValue),
       Str("") >>

\* tableRows with the last item left out of the body.
pdfTableRows_dropsLast(v, its, tot) ==
    [i \in 1..Len(its) |->
        IF i < Len(its) THEN pdfItemRow(v, its[i]) ELSE pdfFooterRow(v, tot)]

\* tableRows after the push: one row per item, in order, then the footer.
pdfTableRows(v, its, tot) ==
    [i \in 1..(Len(its) + 1) |->
        IF i <= Len(its) THEN pdfItemRow(v, its[i]) ELSE pdfFooterRow(v, tot)]

\* The didParseCell hook of autoTable: the font style it gives the cells of
\* the body row with 0-based index `index`.
pdfBodyFontStyle(rows, index) ==
    IF index = Len(rows) - 1 THEN "bold" ELSE "normal"

-----------------------------------------------------------------------------
(* PDF table placement and signature block *)

\* What autoTable can report as lastAutoTable.finalY, in whole millimetres.
\* Every row of the table (one head row and the body rows) is at least
\* minCellHeight tall and taller when a cell wraps, so a table drawn on the
\* first page ends at or below tableStartY + rows * minCellHeight; a table
\* that does not fit continues on further pages (split) and may end anywhere
\* on the last of them.
TableEnds(v, lay, nBodyRows) ==
    { e \in [y : 1..pageHeight, split : BOOLEAN] :
        \/ /\ ~e.split
           /\ (tableStartY(v) * lay.minCellHeight.d)
                + ((nBodyRows + 1) * lay.minCellHeight.n)
              <= e.y * lay.minCellHeight.d
        \/ e.split }

\* The distance below which the table end triggers doc.addPage() before the
\* signatures; "current" has no such test.
hasPageFallback(v) == v # "current"
fallbackGap(v)     == CASE v = "tiered" -> 10 [] v = "app" -> 5

\* The signature step of generatePDF followed by doc.save: the signature line
\* is drawn at sigY on the page that is current after the optional addPage.
drawSignatures(v, e) ==
    [lastTableY |-> e.y,
     split      |-> e.split,
     pageAdded  |-> (hasPageFallback(v) /\ e.y > signatureBlockY(v) - fallbackGap(v)),
     sigY       |-> signatureBlockY(v),
     saved      |-> TRUE]

NoPdf == [lastTableY |-> 0, split |-> FALSE, pageAdded |-> FALSE, sigY |-> 0,
          saved |-> FALSE]


-----------------------------------------------------------------------------
(* Spreadsheet grid: generateExcel, grid construction *)

\* The description cell of a spreadsheet row (the same in every copy).
excelDescription(item) ==
    LET c == (item.color # "" /\ Trim(item.color) # "")
        h == (item.hsCode # "" /\ Trim(item.hsCode) # "")
    IN  item.itemDescription \o
        (IF c \/ h THEN "\n" ELSE "") \o
        (IF c THEN "Color: " \o item.color ELSE "") \o
        (IF c /\ h THEN ", " ELSE "") \o
        (IF h THEN "H.S Code: " \o item.hsCode ELSE "")

\* One data row of the grid.
excelItemRow(v, item) ==
    << Str(item.fabricCode), Str(excelDescription(item)),
       Str(IF v = "tiered" THEN item.rcvdDate
                           ELSE formatDateForReport(item.rcvdDate)),
       Str(item.challanNo), Str(item.piNumber), Str(item.unit),
       Coerce(item.invoiceQty), Coerce(item.rcvdQty), Coerce(item.unitPrice),
       Mul(Coerce(item.invoiceQty), Coerce(item.unitPrice)),
       Str(item.appstremeNo) >>

\* The totals row with the unit cell left empty.
excelTotalRow_unitBlank(tot) ==
    << Str(""), Str(""), Str(""), Str(""), Str("Total:"), Str(""),
       tot.totalInvoiceQty, tot.totalRcvdQty, Str(""), tot.totalValue, Str("") >>

\* The totals row of the grid.
excelTotalRow(tot) ==
    << Str(""), Str(""), Str(""), Str(""), Str("Total:"), Str("YDS"),
       tot.totalInvoiceQty, tot.totalRcvdQty, Str(""), tot.totalValue, Str("") >>

\* An info row that carries a date on the right.
excelDateInfoRow(v, label, value, dateLabel, date) ==
    IF v = "tiered"
    THEN << Str(label), Str(value), Null, Null, Null, Null, Null,
            Str(dateLabel), Str(date) >>
    ELSE << Str(label), Str(value), Str(""), Str(""), Str(""), Str(""), Str(""),
            Str(""), Str(""), Str(dateLabel), Str(formatDateForReport(date)) >>

\* The eleven rows every grid starts with; the last one is the table header.
excelFixedRows(v, hdr) ==
    << << Str("Tusuka Trousers Ltd.") >>,
       << Str("Neelngar, Konabari, Gazipur") >>,
       << Str("Inventory Report") >>,
       << >>,
       excelDateInfoRow(v, "Buyer Name :", hdr.buyerName,
                        "Invoice Date :", hdr.invoiceDate),
       excelDateInfoRow(v, "Supplier Name:", hdr.supplierName,
                        "Billing Date :", hdr.billingDate),
       << Str("File No :"), Str(hdr.fileNo) >>,
       << Str("Invoice No :"), Str(hdr.invoiceNo) >>,
       << Str("L/C Number :"), Str(hdr.lcNumber) >>,
       << >>,
       << Str("Fabric Code"), Str("Item Description"), Str("Rcvd Date"),
          Str("Challan No"), Str("Pi Number"), Str("Unit"), Str("Invoice Qty"),
          Str("Rcvd Qty"), Str("Unit Price $"), Str("Total Value"),
          Str("Appstreme No.\n(Receipt no)") >> >>

\* The number of empty rows pushed between the totals row and the signatures.
spacerRows(v) ==
    CASE v = "current" -> 7
      [] v = "tiered"  -> 4
      [] v = "app"     -> 5

\* The signature row.  In "tiered" the row is built with the labels in columns
\* B and J and the cells A and I then receive the labels as well.
excelSignatureRow(v) ==
    IF v = "tiered"
    THEN << Str("Prepared By"), Str("Prepared By"), Str(""), Str(""), Str(""),
            Str(""), Str(""), Str(""), Str("Store In-Charge"),
            Str("Store In-Charge"), Str("") >>
    ELSE << Str("Prepared By"), Str(""), Str(""), Str(""), Str(""), Str(""),
            Str(""), Str(""), Str(""), Str("Store In-Charge"), Str("") >>

RECURSIVE excelItemRows(_, _)
excelItemRows(v, its) ==
    IF its = << >> THEN << >>
    ELSE Append(excelItemRows(v, SubSeq(its, 1, Len(its) - 1)),
                excelItemRow(v, its[Len(its)]))

\* excelGrid with the totals row pushed before the item rows.
excelGrid_totalsFirst(v, hdr, its, tot) ==
    excelFixedRows(v, hdr)
      \o << excelTotalRow(tot) >>
      \o excelItemRows(v, its)
      \o [i \in 1..spacerRows(v) |-> << >>]
      \o << excelSignatureRow(v) >>

\* The grid in the order the rows are pushed.
excelGrid(v, hdr, its, tot) ==
    excelFixedRows(v, hdr)
      \o excelItemRows(v, its)
      \o << excelTotalRow(tot) >>
      \o [i \in 1..spacerRows(v) |-> << >>]
      \o << excelSignatureRow(v) >>

\* totalRowIndex: data.length when the totals row is pushed, i.e. the 0-based
\* index of the totals row.
totalRowIndex(v, hdr, its) == Len(excelFixedRows(v, hdr)) + Len(its)

\* sigRowIndex: wsData.length when the signature row is pushed (0-based index
\* of the signature row); data.length - 1 in the ExcelJS copies, which test
\* rowNumber === data.length.
sigRowIndex(g) == Len(g) - 1

\* excelRowStyle with the totals row looked up at totalRowIndex taken as a
\* 1-based row number (footerRowIndex = endDataRow in "tiered").
excelRowStyle_totalsOffByOne(v, n, tri, sri, r) ==
    IF v = "tiered"
    THEN LET r0 == r - 1
             endDataRow == 11 + n - 1
         IN  (IF r0 \in {0, 1, 2} THEN {"title"} ELSE {})
             \cup (IF r0 \in {4, 5, 6, 7, 8} THEN {"info"} ELSE {})
             \cup (IF r0 = 10 THEN {"header"} ELSE {})
             \cup (IF r0 >= 11 /\ r0 <= endDataRow THEN {"data"} ELSE {})
             \cup (IF r0 = endDataRow THEN {"totals"} ELSE {})
             \cup (IF r0 = sri THEN {"signature"} ELSE {})
    ELSE IF r \in {1, 2, 3} THEN {"title"}
         ELSE IF r = 4 THEN {}
         ELSE IF r >= 5 /\ r <= 9 THEN {"info"}
         ELSE IF r = 10 THEN {}
         ELSE IF r = 11 THEN {"header"}
         ELSE IF r > 11 /\ r <= 11 + n THEN {"data"}
         ELSE IF r = tri THEN {"totals"}
         ELSE IF r = sri + 1 THEN {"signature"}
         ELSE {}

\* The row styles applied to the cells of row r (1-based) of a grid of n
\* items whose totals row has the 0-based index tri and whose signature row
\* has the 0-based index sri.  The ExcelJS copies pick one branch of an
\* else-if chain on rowNumber; the SheetJS copy ("tiered") assigns the styles
\* by 0-based row index, one block after the other.
excelRowStyle(v, n, tri, sri, r) ==
    IF v = "tiered"
    THEN LET r0 == r - 1
             endDataRow == 11 + n - 1
         IN  (IF r0 \in {0, 1, 2} THEN {"title"} ELSE {})
             \cup (IF r0 \in {4, 5, 6, 7, 8} THEN {"info"} ELSE {})
             \cup (IF r0 = 10 THEN {"header"} ELSE {})
             \cup (IF r0 >= 11 /\ r0 <= endDataRow THEN {"data"} ELSE {})
             \cup (IF r0 = endDataRow + 1 THEN {"totals"} ELSE {})
             \cup (IF r0 = sri THEN {"signature"} ELSE {})
    ELSE IF r \in {1, 2, 3} THEN {"title"}
         ELSE IF r = 4 THEN {}
         ELSE IF r >= 5 /\ r <= 9 THEN {"info"}
         ELSE IF r = 10 THEN {}
         ELSE IF r = 11 THEN {"header"}
         ELSE IF r > 11 /\ r <= 11 + n THEN {"data"}
         ELSE IF r = tri + 1 THEN {"totals"}
         ELSE IF r = sri + 1 THEN {"signature"}
         ELSE {}

\* The styles of every row of the grid g built from (hdr, its, tot).
excelGridStyles(v, hdr, its, g) ==
    LET tri == totalRowIndex(v, hdr, its)
        sri == sigRowIndex(g)
        n   == Len(its)
    IN  [r \in 1..Len(g) |-> excelRowStyle(v, n, tri, sri, r)]

\* A cell no styling statement has touched.
NoStyle == [bold |-> FALSE, horizontal |-> "", wrapText |-> FALSE, numFmt |-> ""]

CellStyle(b, h, w, f) == [bold |-> b, horizontal |-> h, wrapText |-> w, numFmt |-> f]

\* The font weight, the horizontal alignment, the wrapping and the number
\* format the styling code gives the cell in row r, column c (both 1-based)
\* of a grid of n items.  The ExcelJS copies take one branch of the else-if
\* chain on rowNumber and, within it, assign by colNumber; the SheetJS copy
\* assigns whole style objects to the cells it addresses by 0-based (r, c),
\* a later block replacing the style of an earlier one.
excelCellStyle(v, n, tri, sri, r, c) ==
    LET role == excelRowStyle(v, n, tri, sri, r)
    IN  IF v = "tiered"
        THEN IF "signature" \in role
             THEN IF c \in {1, 9} THEN CellStyle(TRUE, "center", FALSE, "")
                  ELSE NoStyle
             ELSE IF "totals" \in role
             THEN CellStyle(TRUE, IF c = 6 THEN "center" ELSE "right", FALSE, "0.00")
             ELSE IF "data" \in role
             THEN IF c \in 7..10 THEN CellStyle(FALSE, "right", FALSE, "0.00")
                  ELSE IF c \in {2, 11} THEN CellStyle(FALSE, "left", TRUE, "")
                  ELSE CellStyle(FALSE, "center", TRUE, "")
             ELSE IF "header" \in role THEN CellStyle(TRUE, "center", TRUE, "")
             ELSE IF "info" \in role
             THEN IF c \in {1, 8} THEN CellStyle(TRUE, "left", FALSE, "")
                  ELSE NoStyle
             ELSE IF "title" \in role
             THEN IF c = 1 THEN CellStyle(r # 2, "center", FALSE, "")
                  ELSE NoStyle
             ELSE NoStyle
        ELSE IF "title" \in role THEN CellStyle(r # 2, "center", TRUE, "")
             ELSE IF "info" \in role
             THEN CellStyle(c = 1 \/ c = 11, "left", FALSE, "")
             ELSE IF "header" \in role THEN CellStyle(TRUE, "center", TRUE, "")
             ELSE IF "data" \in role
             THEN IF c >= 7 /\ c <= 10
                  THEN CellStyle(FALSE, "right", FALSE,
                                 IF c = 9 \/ c = 10 THEN "0.00" ELSE "")
                  ELSE IF c = 2 \/ c = 11 THEN CellStyle(FALSE, "left", TRUE, "")
                  ELSE CellStyle(FALSE, "center", TRUE, "")
             ELSE IF "totals" \in role
             THEN IF c >= 7 /\ c <= 10
                  THEN CellStyle(TRUE, "right", FALSE,
                                 IF c = 9 \/ c = 10 THEN "0.00" ELSE "")
                  ELSE IF c = 5 THEN CellStyle(TRUE, "right", FALSE, "")
                  ELSE CellStyle(TRUE, "center", FALSE, "")
             ELSE IF "signature" \in role THEN CellStyle(TRUE, "center", FALSE, "")
             ELSE NoStyle

\* The merged ranges of the sheet, each as <<row, first column, last column>>
\* (1-based): mergeCells('A1:K1') .. ('A3:K3') in the ExcelJS copies; the
\* SheetJS copy also merges A..C and I..K of the signature row.
excelMerges(v, g) ==
    { <<1, 1, 11>>, <<2, 1, 11>>, <<3, 1, 11>> }
      \cup (IF v = "tiered"
            THEN { <<sigRowIndex(g) + 1, 1, 3>>, <<sigRowIndex(g) + 1, 9, 11>> }
            ELSE {})

NoWorksheet == [cells |-> << >>, merges |-> {}]

\* The cells of the sheet that hold a value, each with its style, and the
\* merged ranges.  Cells given as null are not created.
excelWorksheet(v, hdr, its, g) ==
    LET tri == totalRowIndex(v, hdr, its)
        sri == sigRowIndex(g)
        n   == Len(its)
    IN  [cells  |-> [r \in 1..Len(g) |->
                       [c \in 1..Len(g[r]) |->
                          IF g[r][c] = Null THEN NoStyle
                          ELSE excelCellStyle(v, n, tri, sri, r, c)]],
         merges |-> excelMerges(v, g)]


-----------------------------------------------------------------------------
(* The form: App state and handlers *)

\* The header after the mount effect has set the billing date to today.
InitialHeader ==
    [buyerName |-> "", supplierName |-> "", fileNo |-> "", invoiceNo |-> "",
     lcNumber |-> "", invoiceDate |-> "", billingDate |-> "2024-03-15"]

\* The (name, value) pairs handleHeaderChange is driven with.
HeaderEdits ==
    { <<"buyerName", "Acme">>, <<"buyerName", " ">>,
      <<"billingDate", "">>, <<"billingDate", "2024-03-15">> }

NoTotals == [totalInvoiceQty |-> Zero, totalRcvdQty |-> Zero, totalValue |-> Zero]
NoFilename == ""

\* The invocations of handleGenerate that are followed.
RunIds == 1..2

\* The drawing calls of generatePDF on its jsPDF document, in program order:
\* the three title lines, the info block, autoTable, the signature labels and
\* doc.save.
PdfCalls == << "title", "info", "table", "signatures", "save" >>

\* An invocation that has not happened yet.  `alerts` are the alert() calls of
\* the invocation, `error` the exception its catch block received, `fonts` the
\* state of the promise of registerPDFFonts and `drawn` the drawing calls that
\* have returned.
NoRun ==
    [pc |-> "idle", header |-> InitialHeader, items |-> << >>,
     totals |-> NoTotals, baseFilename |-> NoFilename, alerts |-> << >>,
     error |-> "", fonts |-> "none", drawn |-> << >>]

\* Nothing is queued, no invocation has happened, nothing was downloaded.
AtRest ==
    /\ pending = << >>
    /\ edits = 0
    /\ runs = [r \in RunIds |-> NoRun]
    /\ downloads = << >>

\* No export run is in progress: its locals do not exist.
RunIdle ==
    /\ pc = "idle"
    /\ totals = NoTotals
    /\ baseFilename = NoFilename
    /\ layout = NoLayout
    /\ pdfRows = << >>
    /\ pdf = NoPdf
    /\ grid = << >>
    /\ gridStyles = << >>
    /\ worksheet = NoWorksheet

\* The state updaters the handlers hand to setHeader / setItems.
SetHeader(name, value) ==
    [op |-> "setHeader", id |-> 0, key |-> name, text |-> value, value |-> Zero]
AppendItem(id) ==
    [op |-> "append", id |-> id, key |-> "", text |-> "", value |-> Zero]
FilterItem(id) ==
    [op |-> "filter", id |-> id, key |-> "", text |-> "", value |-> Zero]
MapItem(id, field, value) ==
    [op |-> "map", id |-> id, key |-> field, text |-> "", value |-> value]

\* The (field, value) pairs handleItemChange is driven with: the numeric inputs
\* pass parseFloat(e.target.value) || 0, here 1234.5 and 1.
ItemEdits == { <<"invoiceQty", Num(4938)>>, <<"unitPrice", Num(4)>> }

\* filterItems that removes the first item, whatever its id.
filterItems_dropsHead(its, id) ==
    IF its = << >> THEN << >> ELSE Tail(its)

\* prev.filter(item => item.id !== id)
RECURSIVE filterItems(_, _)
filterItems(its, id) ==
    IF its = << >> THEN << >>
    ELSE IF Head(its).id = id THEN filterItems(Tail(its), id)
    ELSE << Head(its) >> \o filterItems(Tail(its), id)

\* prev.map(item => item.id === id ? {...item, [field]: value} : item)
mapItems(its, id, field, value) ==
    [i \in 1..Len(its) |->
        IF its[i].id = id THEN [its[i] EXCEPT ![field] = value] ELSE its[i]]

\* applyUpdater with the new row put in front of the previous items.
applyUpdater_prepends(st, u) ==
    CASE u.op = "setHeader" ->
            [st EXCEPT !.header = [st.header EXCEPT ![u.key] = u.text]]
      [] u.op = "append" ->
            [st EXCEPT !.items = << BlankItem(u.id) >> \o st.items]
      [] u.op = "filter" ->
            [st EXCEPT !.items = filterItems(st.items, u.id)]
      [] u.op = "map" ->
            [st EXCEPT !.items = mapItems(st.items, u.id, u.key, u.value)]

\* One queued updater applied to the previous state.
applyUpdater(st, u) ==
    CASE u.op = "setHeader" ->
            [st EXCEPT !.header = [st.header EXCEPT ![u.key] = u.text]]
      [] u.op = "append" ->
            [st EXCEPT !.items = Append(st.items, BlankItem(u.id))]
      [] u.op = "filter" ->
            [st EXCEPT !.items = filterItems(st.items, u.id)]
      [] u.op = "map" ->
            [st EXCEPT !.items = mapItems(st.items, u.id, u.key, u.value)]

RECURSIVE applyUpdaters(_, _)
applyUpdaters(st, q) ==
    IF q = << >> THEN st ELSE applyUpdaters(applyUpdater(st, Head(q)), Tail(q))

handleHeaderChange ==
    /\ \E e \in HeaderEdits : pending' = Append(pending, SetHeader(e[1], e[2]))
    /\ UNCHANGED <<variant, header, items, nextId, lastAlert, pc, totals,
                   baseFilename, layout, pdfRows, pdf, grid, gridStyles, worksheet,
                   runs, downloads>>

handleItemChange ==
    /\ \E i \in 1..Len(items) : \E e \in ItemEdits :
          pending' = Append(pending, MapItem(items[i].id, e[1], e[2]))
    /\ UNCHANGED <<variant, header, items, nextId, lastAlert, pc, totals,
                   baseFilename, layout, pdfRows, pdf, grid, gridStyles, worksheet,
                   runs, downloads>>

addNewRow ==
    /\ pending' = Append(pending, AppendItem(nextId))
    /\ nextId' = nextId + 1
    /\ UNCHANGED <<variant, header, items, lastAlert, pc, totals, baseFilename,
                   layout, pdfRows, pdf, grid, gridStyles, worksheet, runs, downloads>>

\* removeRow(id) for the delete button of a rendered row.  The guard reads
\* `items` of the render the handler was created in; the filter is queued.
removeRow ==
    /\ \E i \in 1..Len(items) :
          IF Len(items) > 1
          THEN pending' = Append(pending, FilterItem(items[i].id))
          ELSE UNCHANGED pending
    /\ UNCHANGED <<variant, header, items, nextId, lastAlert, pc, totals,
                   baseFilename, layout, pdfRows, pdf, grid, gridStyles, worksheet,
                   runs, downloads>>

\* React applies the queued updaters in order and renders the component again.
render ==
    /\ pending # << >>
    /\ LET st == applyUpdaters([header |-> header, items |-> items], pending)
       IN /\ header' = st.header
          /\ items' = st.items
    /\ pending' = << >>
    /\ UNCHANGED <<variant, nextId, lastAlert, pc, totals, baseFilename, layout,
                   pdfRows, pdf, grid, gridStyles, worksheet, edits, runs, downloads>>

\* The base filename with the total value cut to its integer part.
buildBaseFilename_truncated(hdr, tot) ==
    "Bill of Buyer " \o hdr.buyerName \o " $"
        \o IntegerToString(IF tot.totalValue.t = "nan" THEN NaN
                           ELSE Num(4 * (tot.totalValue.q \div 4)))
        \o " DATE-" \o getFilenameDate(hdr.billingDate)

\* generateReports:
\* `Bill of Buyer ${header.buyerName} $${totalValueStr} DATE-${filenameDate}`
\* with totalValueStr = Math.round(totals.totalValue).
buildBaseFilename(hdr, tot) ==
    "Bill of Buyer " \o hdr.buyerName \o " $"
        \o IntegerToString(MathRound(tot.totalValue))
        \o " DATE-" \o getFilenameDate(hdr.billingDate)

\* handleGenerate up to the first await of generateReports -> generatePDF:
\* the three guards, then calculateTotals and the base filename.
handleGenerate ==
    /\ pc = "idle"
    /\ IF Trim(header.buyerName) = ""
       THEN /\ lastAlert' = "Please enter a Buyer Name."
            /\ UNCHANGED <<pc, totals, baseFilename>>
       ELSE IF Len(items) = 0
       THEN /\ lastAlert' = "Please add at least one line item."
            /\ UNCHANGED <<pc, totals, baseFilename>>
       ELSE IF Trim(header.billingDate) = ""
       THEN /\ lastAlert' = "Please set a billing date."
            /\ UNCHANGED <<pc, totals, baseFilename>>
       ELSE /\ totals' = calculateTotals(items)
            /\ baseFilename' = buildBaseFilename(header, calculateTotals(items))
            /\ pc' = "fonts"
            /\ UNCHANGED lastAlert
    /\ UNCHANGED <<variant, header, items, nextId, layout, pdfRows, pdf, grid, gridStyles, worksheet>>
    /\ UNCHANGED <<pending, edits, runs, downloads>>

\* generatePDF after registerPDFFonts has resolved: sizing, table rows,
\* autoTable, signature block and doc.save.
generatePDF ==
    /\ pc = "fonts"
    /\ layout' = pdfLayout(variant, items)
    /\ pdfRows' = pdfTableRows(variant, items, totals)
    /\ \E e \in TableEnds(variant, pdfLayout(variant, items), Len(items) + 1) :
          pdf' = drawSignatures(variant, e)
    /\ pc' = "pdfSaved"
    /\ UNCHANGED <<variant, header, items, nextId, lastAlert, totals,
                   baseFilename, grid, gridStyles, worksheet>>
    /\ UNCHANGED <<pending, edits, runs, downloads>>

\* generatePDF has returned (its locals are gone) and generateExcel runs up to
\* the serialisation of the workbook; the SheetJS copy ("tiered") writes the
\* file synchronously.
generateExcel ==
    /\ pc = "pdfSaved"
    /\ layout' = NoLayout
    /\ pdfRows' = << >>
    /\ pdf' = NoPdf
    /\ grid' = excelGrid(variant, header, items, totals)
    /\ gridStyles' = excelGridStyles(variant, header, items, grid')
    /\ worksheet' = excelWorksheet(variant, header, items, grid')
    /\ pc' = IF variant = "tiered" THEN "done" ELSE "writing"
    /\ UNCHANGED <<variant, header, items, nextId, lastAlert, totals,
                   baseFilename>>
    /\ UNCHANGED <<pending, edits, runs, downloads>>

\* workbook.xlsx.writeBuffer() has resolved and the download link is clicked.
writeBufferResolved ==
    /\ pc = "writing"
    /\ pc' = "done"
    /\ UNCHANGED <<variant, header, items, nextId, lastAlert, totals,
                   baseFilename, layout, pdfRows, pdf, grid, gridStyles, worksheet>>
    /\ UNCHANGED <<pending, edits, runs, downloads>>

\* generateReports and handleGenerate return: the run's locals are gone.
exportReturns ==
    /\ pc = "done"
    /\ pc' = "idle"
    /\ totals' = NoTotals
    /\ baseFilename' = NoFilename
    /\ layout' = NoLayout
    /\ pdfRows' = << >>
    /\ pdf' = NoPdf
    /\ grid' = << >>
    /\ gridStyles' = << >>
    /\ worksheet' = NoWorksheet
    /\ UNCHANGED <<variant, header, items, nextId, lastAlert>>
    /\ UNCHANGED <<pending, edits, runs, downloads>>

Init ==
    /\ variant \in Variants
    /\ header = InitialHeader
    /\ items = << BlankItem(1) >>
    /\ nextId = 2
    /\ lastAlert = ""
    /\ RunIdle
    /\ AtRest

\* Spec follows one export run at a time from a form that is at rest: the
\* form handlers are taken between runs.
Next ==
    \/ (pc = "idle" /\ pending = << >> /\ handleHeaderChange
            /\ UNCHANGED edits)
    \/ (pc = "idle" /\ pending = << >> /\ Len(items) < MaxFormRows
            /\ addNewRow /\ UNCHANGED edits)
    \/ render
    \/ (pending = << >> /\ handleGenerate)
    \/ generatePDF
    \/ generateExcel
    \/ writeBufferResolved
    \/ exportReturns

Spec == Init /\ [][Next]_vars


-----------------------------------------------------------------------------
(* calculateTotals and the row builders applied to arbitrary collections *)

\* Field values an item collection is drawn from: numbers, numeric and
\* non-numeric strings, the empty string, NaN, null and a missing field.
InvoiceQtyInputs == {Num(40), Str(""), Str("abc"), Undef}
UnitPriceInputs  == {Num(10), Num(20), NaN}
RcvdQtyInputs    == {Str("1.5"), Null}

InputItem(id, iq, rq, up) ==
    [BlankItem(id) EXCEPT !.invoiceQty = iq, !.rcvdQty = rq, !.unitPrice = up]

\* The (invoiceQty, rcvdQty, unitPrice) triples of an item.  The received
\* quantity is independent of the two other fields in every routine, so it is
\* varied next to a numeric invoice quantity only.
FieldInputs ==
    { t \in InvoiceQtyInputs \X RcvdQtyInputs \X UnitPriceInputs :
        t[2] = Null => t[1] = Num(40) }

\* The (description, unit, colour, HS code) texts of an item: the texts of a new row, another
\* unit, a colour, a colour of blanks only, an HS code, and both annotations.
DefaultTexts == [itemDescription |-> "", unit |-> "YDS", color |-> "", hsCode |-> ""]
TextInputs ==
    { DefaultTexts,
      [itemDescription |-> "Twill", unit |-> "MTR", color |-> "",    hsCode |-> ""],
      [itemDescription |-> "Twill", unit |-> "YDS", color |-> "Red", hsCode |-> ""],
      [itemDescription |-> "Twill", unit |-> "YDS", color |-> " ",   hsCode |-> ""],
      [itemDescription |-> "Twill", unit |-> "YDS", color |-> "",    hsCode |-> "5208"],
      [itemDescription |-> "Twill", unit |-> "YDS", color |-> "Red", hsCode |-> "5208"] }

\* The texts are independent of the numeric fields in every routine, so they
\* are varied next to one numeric triple only.
ItemInputs ==
    { x \in FieldInputs \X TextInputs :
        x[2] # DefaultTexts => x[1] = <<Num(40), Str("1.5"), Num(10)>> }

\* The collection of n items whose fields are the inputs f[1] .. f[n].
InputCollections(n, f) ==
    [i \in 1..n |->
        [InputItem(i, f[i][1][1], f[i][1][2], f[i][1][3])
            EXCEPT !.itemDescription = f[i][2].itemDescription,
                   !.unit = f[i][2].unit,
                   !.color = f[i][2].color,
                   !.hsCode = f[i][2].hsCode]]

InitTotals ==
    /\ variant \in Variants
    /\ header = [InitialHeader EXCEPT !.buyerName = "Acme"]
    /\ \E n \in 0..MaxItems : \E f \in [1..n -> ItemInputs] :
          items = InputCollections(n, f)
    /\ nextId = Len(items) + 1
    /\ lastAlert = ""
    /\ RunIdle
    /\ AtRest

\* calculateTotals(items)
applyCalculateTotals ==
    /\ pc = "idle"
    /\ totals' = calculateTotals(items)
    /\ pc' = "totals"
    /\ UNCHANGED <<variant, header, items, nextId, lastAlert, baseFilename,
                   layout, pdfRows, pdf, grid, gridStyles, worksheet>>
    /\ UNCHANGED <<pending, edits, runs, downloads>>

\* the table body generatePDF builds from (items, totals)
applyPdfRows ==
    /\ pc = "totals"
    /\ pdfRows' = pdfTableRows(variant, items, totals)
    /\ pc' = "rows"
    /\ UNCHANGED <<variant, header, items, nextId, lastAlert, totals,
                   baseFilename, layout, pdf, grid, gridStyles, worksheet>>
    /\ UNCHANGED <<pending, edits, runs, downloads>>

\* the grid generateExcel builds from (header, items, totals)
applyExcelGrid ==
    /\ pc = "rows"
    /\ grid' = excelGrid(variant, header, items, totals)
    /\ gridStyles' = excelGridStyles(variant, header, items, grid')
    /\ worksheet' = excelWorksheet(variant, header, items, grid')
    /\ pc' = "grid"
    /\ UNCHANGED <<variant, header, items, nextId, lastAlert, totals,
                   baseFilename, layout, pdfRows, pdf>>
    /\ UNCHANGED <<pending, edits, runs, downloads>>

NextTotals == applyCalculateTotals \/ applyPdfRows \/ applyExcelGrid

SpecTotals == InitTotals /\ [][NextTotals]_vars


-----------------------------------------------------------------------------
(* Overlapping export runs: handleGenerate invoked while the form is edited *)

\* Largest number of form handler calls followed in SpecRuns.
MaxEdits == 1

\* The label / value pairs generatePDF draws in the info block; drawLabelVal
\* draws val || ''.  "tiered" draws the two dates as typed.
pdfInfoBlock(v, hdr) ==
    << <<"Buyer Name :", hdr.buyerName>>,
       <<"Supplier Name:", hdr.supplierName>>,
       <<"File No :", hdr.fileNo>>,
       <<"Invoice No :", hdr.invoiceNo>>,
       <<"L/C Number :", hdr.lcNumber>>,
       <<"Invoice Date:", IF v = "tiered" THEN hdr.invoiceDate
                          ELSE formatDateForReport(hdr.invoiceDate)>>,
       <<"Billing Date:", IF v = "tiered" THEN hdr.billingDate
                          ELSE formatDateForReport(hdr.billingDate)>> >>

\* The file doc.save(`${filename}.pdf`) hands to the browser.
pdfFile(v, r, hdr, its, tot, filename, pageAdded) ==
    [run |-> r, kind |-> "pdf", name |-> filename \o ".pdf",
     info |-> pdfInfoBlock(v, hdr),
     layout |-> pdfLayout(v, its),
     rows |-> pdfTableRows(v, its, tot),
     pageAdded |-> pageAdded,
     grid |-> << >>, styles |-> << >>]

\* The file link.download = `${filename}.xlsx` / XLSX.writeFile hands over.
xlsxFile(v, r, hdr, its, tot, filename) ==
    LET g == excelGrid(v, hdr, its, tot)
    IN [run |-> r, kind |-> "xlsx", name |-> filename \o ".xlsx",
        info |-> << >>, layout |-> NoLayout, rows |-> << >>,
        pageAdded |-> FALSE,
        grid |-> g, styles |-> excelGridStyles(v, hdr, its, g)]

\* The catch block of handleGenerate.
GenericError == "Error generating reports. Check console for details."

\* The continuation of `await generatePDF(...)` is a microtask: it runs before
\* any further event or timer, so nothing else happens while a run is there.
NoMicrotask == \A r \in RunIds : runs[r].pc # "pdfSaved"

\* What a run step leaves alone: the form and the single run of Spec.
RunFrame ==
    UNCHANGED <<variant, header, items, nextId, lastAlert, pc, totals,
                baseFilename, layout, pdfRows, pdf, grid, gridStyles, worksheet, pending,
                edits>>

\* handleGenerate with calculateTotals summing into an accumulator that
\* outlives the call: the totals of a run carry the items of the run before.
invokeHandleGenerate_sharedTotals(r) ==
    /\ runs[r].pc = "idle"
    /\ \A q \in RunIds : q < r => runs[q].pc # "idle"
    /\ LET seen == IF r > 1 THEN runs[r - 1].items \o items ELSE items
       IN runs' = [runs EXCEPT ![r] =
            IF Trim(header.buyerName) = ""
            THEN [@ EXCEPT !.pc = "rejected",
                           !.alerts = Append(@, "Please enter a Buyer Name.")]
            ELSE IF Len(items) = 0
            THEN [@ EXCEPT !.pc = "rejected",
                           !.alerts = Append(@, "Please add at least one line item.")]
            ELSE IF Trim(header.billingDate) = ""
            THEN [@ EXCEPT !.pc = "rejected",
                           !.alerts = Append(@, "Please set a billing date.")]
            ELSE [@ EXCEPT !.pc = "fonts",
                           !.header = header,
                           !.items = items,
                           !.totals = calculateTotals(seen),
                           !.baseFilename =
                               buildBaseFilename(header, calculateTotals(seen))]]
    /\ UNCHANGED downloads
    /\ RunFrame

\* handleGenerate without the test of the item list.
invokeHandleGenerate_noItemGuard(r) ==
    /\ runs[r].pc = "idle"
    /\ \A q \in RunIds : q < r => runs[q].pc # "idle"
    /\ runs' = [runs EXCEPT ![r] =
         IF Trim(header.buyerName) = ""
         THEN [@ EXCEPT !.pc = "rejected",
                        !.alerts = Append(@, "Please enter a Buyer Name.")]
         ELSE IF Trim(header.billingDate) = ""
         THEN [@ EXCEPT !.pc = "rejected",
                        !.alerts = Append(@, "Please set a billing date.")]
         ELSE [@ EXCEPT !.pc = "fonts",
                        !.header = header,
                        !.items = items,
                        !.totals = calculateTotals(items),
                        !.baseFilename =
                            buildBaseFilename(header, calculateTotals(items))]]
    /\ UNCHANGED downloads
    /\ RunFrame

\* handleGenerate, invocation r, up to the first await: the three guards on
\* the rendered header and items, then generateReports (totals once, the base
\* filename) and generatePDF up to `await registerPDFFonts(doc)`.
invokeHandleGenerate(r) ==
    /\ runs[r].pc = "idle"
    /\ \A q \in RunIds : q < r => runs[q].pc # "idle"
    /\ runs' = [runs EXCEPT ![r] =
         IF Trim(header.buyerName) = ""
         THEN [@ EXCEPT !.pc = "rejected",
                        !.alerts = Append(@, "Please enter a Buyer Name.")]
         ELSE IF Len(items) = 0
         THEN [@ EXCEPT !.pc = "rejected",
                        !.alerts = Append(@, "Please add at least one line item.")]
         ELSE IF Trim(header.billingDate) = ""
         THEN [@ EXCEPT !.pc = "rejected",
                        !.alerts = Append(@, "Please set a billing date.")]
         ELSE [@ EXCEPT !.pc = "fonts",
                        !.header = header,
                        !.items = items,
                        !.totals = calculateTotals(items),
                        !.baseFilename =
                            buildBaseFilename(header, calculateTotals(items)),
                        !.fonts = "pending"]]
    /\ UNCHANGED downloads
    /\ RunFrame

\* generatePDF ordering the item array in place (items.reverse()) before it
\* builds the table rows: the array is the one the form state holds.
resumeGeneratePDF_reversesInPlace(r) ==
    /\ runs[r].pc = "fonts"
    /\ \E added \in BOOLEAN :
          downloads' = Append(downloads,
                              pdfFile(variant, r, runs[r].header,
                                      [i \in 1..Len(runs[r].items) |->
                                         runs[r].items[Len(runs[r].items) + 1 - i]],
                                      runs[r].totals, runs[r].baseFilename,
                                      added))
    /\ runs' = [runs EXCEPT ![r].pc = "pdfSaved",
                            ![r].items = [i \in 1..Len(@) |-> @[Len(@) + 1 - i]]]
    /\ items' = IF items = runs[r].items
                THEN [i \in 1..Len(items) |-> items[Len(items) + 1 - i]]
                ELSE items
    /\ UNCHANGED <<variant, header, nextId, lastAlert, pc, totals,
                   baseFilename, layout, pdfRows, pdf, grid, gridStyles, worksheet,
                   pending, edits>>

\* generatePDF reading the form state of the moment it resumes instead of the
\* header and items it was called with.
resumeGeneratePDF_readsForm(r) ==
    /\ runs[r].pc = "fonts"
    /\ \E added \in BOOLEAN :
          downloads' = Append(downloads,
                              pdfFile(variant, r, header, items,
                                      runs[r].totals, runs[r].baseFilename,
                                      added))
    /\ runs' = [runs EXCEPT ![r].pc = "pdfSaved"]
    /\ RunFrame

\* generatePDF with registerPDFFonts called and not awaited: the drawing runs
\* while the promise is pending.
resumeGeneratePDF_fontsNotAwaited(r) ==
    /\ runs[r].pc = "fonts"
    /\ \E added \in BOOLEAN :
          downloads' = Append(downloads,
                              pdfFile(variant, r, runs[r].header, runs[r].items,
                                      runs[r].totals, runs[r].baseFilename,
                                      added))
    /\ runs' = [runs EXCEPT ![r].pc = "pdfSaved",
                            ![r].drawn = PdfCalls]
    /\ RunFrame

\* generatePDF of run r after registerPDFFonts has resolved, to doc.save.
resumeGeneratePDF(r) ==
    /\ runs[r].pc = "fonts"
    /\ \E added \in { drawSignatures(variant, e).pageAdded :
                        e \in TableEnds(variant,
                                        pdfLayout(variant, runs[r].items),
                                        Len(runs[r].items) + 1) } :
          downloads' = Append(downloads,
                              pdfFile(variant, r, runs[r].header, runs[r].items,
                                      runs[r].totals, runs[r].baseFilename,
                                      added))
    /\ runs' = [runs EXCEPT ![r].pc = "pdfSaved",
                            ![r].fonts = "resolved",
                            ![r].drawn = PdfCalls]
    /\ RunFrame

\* The exception of generatePDF swallowed inside generateReports: the run goes
\* on to the spreadsheet.
generatePDFThrows_swallowed(r) ==
    /\ runs[r].pc = "fonts"
    /\ runs' = [runs EXCEPT ![r].pc = "pdfSaved",
                            ![r].error = "generatePDF"]
    /\ UNCHANGED downloads
    /\ RunFrame

\* The places generatePDF is made to throw at: registerPDFFonts rejects (0),
\* autoTable throws after the title and the info block were drawn (3),
\* doc.save throws after everything was drawn (5).
ThrowPoints == {0, 3, Len(PdfCalls)}

\* registerPDFFonts rejects (k = 0) or it resolves and drawing call k of
\* generatePDF throws, the calls before it having returned: the exception
\* leaves generateReports and reaches the catch of handleGenerate.
generatePDFThrows(r) ==
    /\ runs[r].pc = "fonts"
    /\ \E k \in ThrowPoints :
          runs' = [runs EXCEPT
                     ![r].pc = "failed",
                     ![r].alerts = Append(@, GenericError),
                     ![r].error = "generatePDF",
                     ![r].fonts = IF k = 0 THEN "rejected" ELSE "resolved",
                     ![r].drawn = SubSeq(PdfCalls, 1, k - 1)]
    /\ UNCHANGED downloads
    /\ RunFrame

\* generateExcel awaiting a promise that nothing settles.
startGenerateExcel_neverSettles(r) ==
    /\ runs[r].pc = "pdfSaved"
    /\ runs' = [runs EXCEPT ![r].pc = "pending"]
    /\ UNCHANGED downloads
    /\ RunFrame

\* generateExcel entered without waiting for generatePDF.
startGenerateExcel_notAwaited(r) ==
    /\ runs[r].pc = "fonts"
    /\ IF variant = "tiered"
       THEN /\ downloads' = Append(downloads,
                                   xlsxFile(variant, r, runs[r].header,
                                            runs[r].items, runs[r].totals,
                                            runs[r].baseFilename))
            /\ runs' = [runs EXCEPT ![r].pc = "done"]
       ELSE /\ UNCHANGED downloads
            /\ runs' = [runs EXCEPT ![r].pc = "writing"]
    /\ RunFrame

\* generateExcel of run r up to the serialisation of the workbook; the SheetJS
\* copy ("tiered") writes the file synchronously.
startGenerateExcel(r) ==
    /\ runs[r].pc = "pdfSaved"
    /\ IF variant = "tiered"
       THEN /\ downloads' = Append(downloads,
                                   xlsxFile(variant, r, runs[r].header,
                                            runs[r].items, runs[r].totals,
                                            runs[r].baseFilename))
            /\ runs' = [runs EXCEPT ![r].pc = "done"]
       ELSE /\ UNCHANGED downloads
            /\ runs' = [runs EXCEPT ![r].pc = "writing"]
    /\ RunFrame

\* The exception of generateExcel answered by running the export again.
generateExcelThrows_retried(r) ==
    /\ runs[r].pc = "pdfSaved"
    /\ runs' = [runs EXCEPT ![r].pc = "fonts",
                            ![r].alerts = Append(@, GenericError),
                            ![r].error = "generateExcel"]
    /\ UNCHANGED downloads
    /\ RunFrame

\* A call of generateExcel throws before the file is written.
generateExcelThrows(r) ==
    /\ runs[r].pc = "pdfSaved"
    /\ runs' = [runs EXCEPT ![r].pc = "failed",
                            ![r].alerts = Append(@, GenericError),
                            ![r].error = "generateExcel"]
    /\ UNCHANGED downloads
    /\ RunFrame

\* workbook.xlsx.writeBuffer() of run r has resolved: the link is clicked.
resumeWriteBuffer(r) ==
    /\ runs[r].pc = "writing"
    /\ downloads' = Append(downloads,
                           xlsxFile(variant, r, runs[r].header, runs[r].items,
                                    runs[r].totals, runs[r].baseFilename))
    /\ runs' = [runs EXCEPT ![r].pc = "done"]
    /\ RunFrame

\* workbook.xlsx.writeBuffer() of run r rejects.
writeBufferRejects(r) ==
    /\ runs[r].pc = "writing"
    /\ runs' = [runs EXCEPT ![r].pc = "failed",
                            ![r].alerts = Append(@, GenericError),
                            ![r].error = "writeBuffer"]
    /\ UNCHANGED downloads
    /\ RunFrame

\* The form the runs start from: a buyer, a billing date, a priced row (1234.5
\* at 1) and a blank row.
InitRuns ==
    /\ variant \in Variants
    /\ header = [InitialHeader EXCEPT !.buyerName = "Acme"]
    /\ items = << [BlankItem(1) EXCEPT !.invoiceQty = Num(4938),
                                       !.unitPrice = Num(4)],
                  BlankItem(2) >>
    /\ nextId = 3
    /\ lastAlert = ""
    /\ RunIdle
    /\ AtRest

\* A handler runs when no microtask is due and the last update was rendered.
FormReady == NoMicrotask /\ pending = << >> /\ edits < MaxEdits

NextRuns ==
    \/ (FormReady /\ handleHeaderChange /\ edits' = edits + 1)
    \/ (FormReady /\ handleItemChange /\ edits' = edits + 1)
    \/ (FormReady /\ addNewRow /\ edits' = edits + 1)
    \/ (FormReady /\ removeRow /\ edits' = edits + 1)
    \/ (NoMicrotask /\ render)
    \/ \E r \in RunIds :
         \/ (NoMicrotask /\ pending = << >> /\ invokeHandleGenerate(r))
         \/ (NoMicrotask /\ resumeGeneratePDF(r))
         \/ (NoMicrotask /\ generatePDFThrows(r))
         \/ startGenerateExcel(r)
         \/ generateExcelThrows(r)
         \/ (NoMicrotask /\ resumeWriteBuffer(r))
         \/ (NoMicrotask /\ writeBufferRejects(r))

SpecRuns == InitRuns /\ [][NextRuns]_vars

\* The promise run r waits on settles: font loading resolves or rejects.
fontsSettle(r) ==
    NoMicrotask /\ (resumeGeneratePDF(r) \/ generatePDFThrows(r))

\* The microtask that continues generateReports after generatePDF runs.
excelContinues(r) == startGenerateExcel(r) \/ generateExcelThrows(r)

\* The workbook serialisation of run r resolves or rejects.
writeBufferSettles(r) ==
    NoMicrotask /\ (resumeWriteBuffer(r) \/ writeBufferRejects(r))

\* The export runs with the form left alone.
NextRunsAlone ==
    \E r \in RunIds :
        \/ (NoMicrotask /\ invokeHandleGenerate(r))
        \/ (NoMicrotask /\ resumeGeneratePDF(r))
        \/ (NoMicrotask /\ generatePDFThrows(r))
        \/ startGenerateExcel(r)
        \/ generateExcelThrows(r)
        \/ (NoMicrotask /\ resumeWriteBuffer(r))
        \/ (NoMicrotask /\ writeBufferRejects(r))

\* The runs under the event loop's scheduling: a settled promise has its
\* continuation run, and font loading and serialisation do settle.
SpecRunsLive ==
    /\ InitRuns /\ [][NextRunsAlone]_vars
    /\ \A r \in RunIds :
         /\ WF_vars(fontsSettle(r))
         /\ WF_vars(excelContinues(r))
         /\ WF_vars(writeBufferSettles(r))

-----------------------------------------------------------------------------
(* The form on its own: handler calls batched before a render *)

\* Largest number of form handler calls followed in SpecForm.
MaxFormEdits == 4

\* A handler may run again before the update of the previous one is rendered.
MoreEdits == edits < MaxFormEdits

\* SpecForm follows the form from its initial one-row state; an export that
\* passes the guards of handleGenerate is followed to its first await only.
NextForm ==
    \/ (MoreEdits /\ handleHeaderChange /\ edits' = edits + 1)
    \/ (MoreEdits /\ handleItemChange /\ edits' = edits + 1)
    \/ (MoreEdits /\ addNewRow /\ edits' = edits + 1)
    \/ (MoreEdits /\ removeRow /\ edits' = edits + 1)
    \/ render
    \/ \E r \in RunIds : invokeHandleGenerate(r)

SpecForm == Init /\ [][NextForm]_vars


-----------------------------------------------------------------------------
(* Totals and row values: properties checked under SpecTotals *)

\* What a field counts for by the contract, in quarters: its value when it is
\* a number or a numeric string, 0 when it is non-numeric, empty or missing.
ContractQuarters(x) ==
    CASE x.t = "num"                 -> x.q
      [] x.t = "str" /\ x.s = "1.5"  -> 6
      [] x.t = "str" /\ x.s = "5"    -> 20
      [] OTHER                       -> 0

ContractLineValue(item) ==
    (ContractQuarters(item.invoiceQty) * ContractQuarters(item.unitPrice)) \div 4

RECURSIVE SumInvoiceQty(_)
SumInvoiceQty(its) ==
    IF its = << >> THEN 0
    ELSE ContractQuarters(Head(its).invoiceQty) + SumInvoiceQty(Tail(its))

RECURSIVE SumRcvdQty(_)
SumRcvdQty(its) ==
    IF its = << >> THEN 0
    ELSE ContractQuarters(Head(its).rcvdQty) + SumRcvdQty(Tail(its))

RECURSIVE SumLineValue(_)
SumLineValue(its) ==
    IF its = << >> THEN 0
    ELSE ContractLineValue(Head(its)) + SumLineValue(Tail(its))

\* C1: the totals computed for a collection are the sum of the invoice
\* quantities, the sum of the received quantities and the sum of invoice
\* quantity times unit price over all items, a non-numeric or missing field
\* counting as 0; a single item {invoiceQty 10, unitPrice 2.5} gives a total
\* value of 25.
C1_TotalsAreCoercedSums ==
    pc # "idle" =>
        /\ totals = [totalInvoiceQty |-> Num(SumInvoiceQty(items)),
                     totalRcvdQty    |-> Num(SumRcvdQty(items)),
                     totalValue      |-> Num(SumLineValue(items))]
        /\ (Len(items) = 1 /\ items[1].invoiceQty = Num(40)
                           /\ items[1].unitPrice = Num(10))
              => totals.totalValue = Num(100)

\* Totals of {10, 2.5} followed by an item whose quantity is no number.
C1_Witness ==
    /\ pc = "totals"
    /\ Len(items) = 2
    /\ items[1].invoiceQty = Num(40) /\ items[1].unitPrice = Num(10)
    /\ items[2].invoiceQty = Str("abc") /\ items[2].rcvdQty = Str("1.5")
    /\ totals.totalInvoiceQty = Num(40)
    /\ totals.totalValue = Num(100)

\* items taken in the order p
Permuted(its, p) == [i \in 1..Len(its) |-> its[p[i]]]

Malformed(x) ==
    \/ x.t \in {"nan", "undefined", "null"}
    \/ x.t = "str" /\ x.s \in {"", " ", "abc"}

RemoveAt(its, i) == SubSeq(its, 1, i - 1) \o SubSeq(its, i + 1, Len(its))

\* C3: computing the totals never yields an error value whatever the fields
\* hold: each total is a number, and an item whose quantity or price is
\* non-numeric, empty or missing adds 0 to the total concerned, e.g.
\* {invoiceQty "", unitPrice 5} adds 0 to the total value.
C3_MalformedCountsAsZero ==
    pc # "idle" =>
        /\ totals.totalInvoiceQty.t = "num"
        /\ totals.totalRcvdQty.t = "num"
        /\ totals.totalValue.t = "num"
        /\ \A i \in 1..Len(items) :
              LET rest == calculateTotals(RemoveAt(items, i))
              IN  /\ Malformed(items[i].invoiceQty)
                        => rest.totalInvoiceQty = totals.totalInvoiceQty
                  /\ Malformed(items[i].rcvdQty)
                        => rest.totalRcvdQty = totals.totalRcvdQty
                  /\ (Malformed(items[i].invoiceQty) \/ Malformed(items[i].unitPrice))
                        => rest.totalValue = totals.totalValue

\* Totals of {invoiceQty "", unitPrice 5} and of an item without quantity and
\* with a NaN price.
C3_Witness ==
    /\ pc = "totals"
    /\ Len(items) = 2
    /\ items[1].invoiceQty = Str("") /\ items[1].unitPrice = Num(20)
    /\ items[2].invoiceQty = Undef /\ items[2].unitPrice = NaN
    /\ totals.totalValue = Zero

\* A cell that shows a number, and the number in hundredths.
IsNumberCell(c)   == c.t \in {"num", "dec"}
CellHundredths(c) == IF c.t = "dec" THEN c.q ELSE c.q * 25

\* The four numeric cells of a data row show the coerced values of the item.
RowShowsCoerced(row, item) ==
    /\ \A k \in 7..10 : IsNumberCell(row[k])
    /\ CellHundredths(row[7])  = 25 * ContractQuarters(item.invoiceQty)
    /\ CellHundredths(row[8])  = 25 * ContractQuarters(item.rcvdQty)
    /\ CellHundredths(row[9])  = 25 * ContractQuarters(item.unitPrice)
    /\ CellHundredths(row[10]) = 25 * ContractLineValue(item)

\* The sum of the line totals shown in rows first..last of a table.
RECURSIVE SumShownLineTotals(_, _, _)
SumShownLineTotals(rows, first, last) ==
    IF last < first THEN 0
    ELSE SumShownLineTotals(rows, first, last - 1) + CellHundredths(rows[last][10])

\* C4: in every data row of the PDF table and of the spreadsheet grid the
\* quantities, the price and the line total are the coerced values (a
\* non-numeric quantity or price counts as 0, so the line total is coerced
\* quantity times coerced price), and the line totals of the rows sum to the
\* total value shown in the totals row.
C4_RowsCoercedAndSumToTotal ==
    /\ pc \in {"rows", "grid"} =>
          /\ \A i \in 1..Len(items) : RowShowsCoerced(pdfRows[i], items[i])
          /\ IsNumberCell(pdfRows[Len(items) + 1][10])
          /\ SumShownLineTotals(pdfRows, 1, Len(items))
                = CellHundredths(pdfRows[Len(items) + 1][10])
    /\ pc = "grid" =>
          /\ \A i \in 1..Len(items) : RowShowsCoerced(grid[11 + i], items[i])
          /\ IsNumberCell(grid[11 + Len(items) + 1][10])
          /\ SumShownLineTotals(grid, 12, 11 + Len(items))
                = CellHundredths(grid[11 + Len(items) + 1][10])

-----------------------------------------------------------------------------
(* PDF layout and spreadsheet grid: properties checked under Spec *)

\* The gap the renderer keeps before the signature anchor: the distance of its
\* page test where it has one, its declared signature gap otherwise.
AnchorGap(v) == IF hasPageFallback(v) THEN fallbackGap(v) ELSE signatureGap(v)

\* The signature line is drawn on the page the table ends on, above the end
\* of the table.
SignatureOverlapsTable == ~pdf.pageAdded /\ pdf.lastTableY > pdf.sigY

\* C5: in the PDF renderer, for every item count, a table that ends beyond
\* the signature anchor minus the fixed gap makes the renderer start a new
\* page and draw the signature block there, and in every outcome the
\* signature block does not overlap the table.
C5_SignatureClearOfTable ==
    pc = "pdfSaved" =>
        /\ pdf.lastTableY > signatureBlockY(variant) - AnchorGap(variant)
              => pdf.pageAdded
        /\ ~SignatureOverlapsTable

\* Rows autoTable draws: the head row and the body rows.
TableRowsDrawn == Len(pdfRows) + 1

\* The rows at the chosen minimum row height stay within the budget.
TableFitsBudget ==
    TableRowsDrawn * layout.minCellHeight.n
        <= maxTableHeight(variant) * layout.minCellHeight.d

FitCounts(v) ==
    CASE v = "current" -> 0..7
      [] v = "tiered"  -> 0..9
      [] v = "app"     -> (0..7) \cup (10..14)

FewRowsAboveManyRows ==
    /\ layout.rowCount = 5 =>
          /\ layout.fontSize > fontSize(variant, 30)
          /\ FracLt(minCellHeight(variant, 30), layout.minCellHeight)
    /\ layout.rowCount = 30 =>
          /\ layout.fontSize < fontSize(variant, 5)
          /\ FracLt(layout.minCellHeight, minCellHeight(variant, 5))

\* C7 as stated: rowCount 5 gets the few-rows tier (larger font and row
\* height) and rowCount 30 the many-rows tier, and the row height strictly
\* decreases across each of the boundaries 5, 15 and 25.
C7_StrictDecreaseAtEveryBoundary ==
    pc = "pdfSaved" =>
        /\ FewRowsAboveManyRows
        /\ layout.rowCount \in {5, 15, 25} =>
              FracLt(minCellHeight(variant, layout.rowCount + 1),
                     layout.minCellHeight)

\* The boundaries among 5, 15 and 25 across which the row height drops.
StrictBoundaries(v) ==
    CASE v = "current" -> {15}
      [] v = "tiered"  -> {5, 15, 25}
      [] v = "app"     -> {25}

\* C7 amended: rowCount 5 gets a larger font and row height than rowCount 30;
\* across each of the boundaries 5, 15 and 25 the row height never increases,
\* and it strictly decreases across all three in the tiered renderer, across
\* 15 only in the current renderer and across 25 only in the App.tsx copy.
C7_DecreaseAtBoundaries ==
    pc = "pdfSaved" =>
        /\ FewRowsAboveManyRows
        /\ layout.rowCount \in {5, 15, 25} =>
              /\ FracLeq(minCellHeight(variant, layout.rowCount + 1),
                         layout.minCellHeight)
              /\ FracLt(minCellHeight(variant, layout.rowCount + 1),
                        layout.minCellHeight)
                    <=> layout.rowCount \in StrictBoundaries(variant)

\* The current renderer at rowCount 25: 6 mm, as at rowCount 26.
C7_Witness ==
    /\ pc = "pdfSaved"
    /\ variant = "current"
    /\ layout.rowCount = 25
    /\ layout.minCellHeight = Frac(6, 1)
    /\ minCellHeight(variant, 26) = Frac(6, 1)

\* C8: font size and minimum row height are monotonic in rowCount: for all
\* row counts a <= b, fontSize(a) >= fontSize(b) and
\* minRowHeight(a) >= minRowHeight(b).
C8_SizingMonotonic ==
    pc = "pdfSaved" =>
        \A a \in 1..layout.rowCount :
            /\ fontSize(variant, a) >= layout.fontSize
            /\ FracLeq(layout.minCellHeight, minCellHeight(variant, a))

\* A table of the smallest tier, compared with every smaller row count.
C8_Witness ==
    /\ pc = "pdfSaved"
    /\ layout.rowCount >= 26
    /\ layout.fontSize = 7
    /\ fontSize(variant, 1) > 7

\* C9 as stated: rowCount is items.length + 1 and is the input of the font
\* and row-height selection.
C9_RowCountIsItemsPlusOne ==
    pc = "pdfSaved" =>
        /\ layout.rowCount = Len(items) + 1
        /\ layout.fontSize = fontSize(variant, layout.rowCount)
        /\ layout.minCellHeight = minCellHeight(variant, layout.rowCount)

\* C9 amended: rowCount is items.length + 1 (items and totals row) in the
\* current renderer and in the App.tsx copy and items.length + 2 (head row,
\* items and totals row) in the tiered renderer, and is the input of the font
\* and row-height selection.
C9_RowCountPerRenderer ==
    pc = "pdfSaved" =>
        /\ variant \in {"current", "app"} => layout.rowCount = Len(items) + 1
        /\ variant = "tiered" => layout.rowCount = Len(items) + 2
        /\ layout.fontSize = fontSize(variant, layout.rowCount)
        /\ layout.minCellHeight = minCellHeight(variant, layout.rowCount)

\* Four items in the tiered renderer: rowCount 6, the second tier.
C9_Witness ==
    /\ pc = "pdfSaved"
    /\ variant = "tiered"
    /\ Len(items) = 4
    /\ layout.rowCount = 6
    /\ layout.fontSize = 9

\* Rows of the grid told by their content.
HeaderRowIndexes ==
    { i \in 1..Len(grid) : Len(grid[i]) >= 1 /\ grid[i][1] = Str("Fabric Code") }
TotalsRowIndexes ==
    { i \in 1..Len(grid) : Len(grid[i]) >= 5 /\ grid[i][5] = Str("Total:") }
SignatureRowIndexes ==
    { i \in 1..Len(grid) : Len(grid[i]) >= 1 /\ grid[i][1] = Str("Prepared By") }

RowRole(row) ==
    IF row \in { << Str("Tusuka Trousers Ltd.") >>,
                 << Str("Neelngar, Konabari, Gazipur") >>,
                 << Str("Inventory Report") >> } THEN "title"
    ELSE IF Len(row) = 0 THEN ""
    ELSE IF row[1] \in { Str("Buyer Name :"), Str("Supplier Name:"),
                         Str("File No :"), Str("Invoice No :"),
                         Str("L/C Number :") } THEN "info"
    ELSE IF row[1] = Str("Fabric Code") THEN "header"
    ELSE IF Len(row) >= 5 /\ row[5] = Str("Total:") THEN "totals"
    ELSE IF row[1] = Str("Prepared By") THEN "signature"
    ELSE IF Len(row) = 11 THEN "data"
    ELSE ""

RowsOfRole(role) == { i \in 1..Len(grid) : RowRole(grid[i]) = role }

\* C11: in the spreadsheet renderer, for every number of items N >= 1, the
\* rows styled as title are the 3 title rows, those styled as info the 5 info
\* rows, the one styled as header the header row, those styled as data the N
\* item rows, the one styled as totals the totals row and the one styled as
\* signature the signature row, and no row gets the style of another role.
C11_StylesFollowRoles ==
    (pc \in {"writing", "done"} /\ Len(items) >= 1) =>
        /\ Cardinality(RowsOfRole("title")) = 3
        /\ Cardinality(RowsOfRole("info")) = 5
        /\ Cardinality(RowsOfRole("header")) = 1
        /\ Cardinality(RowsOfRole("data")) = Len(items)
        /\ Cardinality(RowsOfRole("totals")) = 1
        /\ Cardinality(RowsOfRole("signature")) = 1
        /\ DOMAIN gridStyles = 1..Len(grid)
        /\ \A i \in 1..Len(grid) :
              gridStyles[i] = (IF RowRole(grid[i]) = "" THEN {}
                               ELSE {RowRole(grid[i])})

\* A styled grid of three items: data style on rows 12..14, totals on row 15.
C11_Witness ==
    /\ pc \in {"writing", "done"}
    /\ Len(items) = 3
    /\ gridStyles[12] = {"data"} /\ gridStyles[14] = {"data"}
    /\ gridStyles[15] = {"totals"}
    /\ gridStyles[Len(grid)] = {"signature"}
    /\ RowRole(grid[15]) = "totals"

\* The body of the PDF table: one row per item in input order, then one
\* totals row, the only bold one, showing the three totals.
PdfBodyShape ==
    /\ Len(pdfRows) = Len(items) + 1
    /\ \A i \in 1..Len(items) : pdfRows[i] = pdfItemRow(variant, items[i])
    /\ \A i \in 1..Len(pdfRows) :
         pdfBodyFontStyle(pdfRows, i - 1) = "bold" <=> i = Len(items) + 1
    /\ LET last == pdfRows[Len(pdfRows)]
       IN /\ IsNumberCell(last[7]) /\ IsNumberCell(last[8]) /\ IsNumberCell(last[10])
          /\ CellHundredths(last[7])  = 25 * totals.totalInvoiceQty.q
          /\ CellHundredths(last[8])  = 25 * totals.totalRcvdQty.q
          /\ CellHundredths(last[10]) = 25 * totals.totalValue.q

\* C23 as stated: the PDF table body is one row per item in input order and
\* then one totals row as the last row, for every number of items; the totals
\* row is the only bold body row, carries the three totals in the quantity and
\* value columns, and all its other columns are blank.
C23_TotalsRowOtherwiseBlank ==
    pc \in {"rows", "grid"} =>
        /\ PdfBodyShape
        /\ \A c \in 1..11 :
             c \notin {7, 8, 10} => pdfRows[Len(pdfRows)][c] = Str("")

\* C23, amended: as above, except that the unit column of the totals row
\* holds the label "TOTAL" ("TOTAL:" in two copies of the renderer); the
\* remaining columns of the totals row are blank.
C23_PdfBodyRows ==
    pc \in {"rows", "grid"} =>
        /\ PdfBodyShape
        /\ pdfRows[Len(pdfRows)][6] \in {Str("TOTAL"), Str("TOTAL:")}
        /\ \A c \in 1..11 :
             c \notin {6, 7, 8, 10} => pdfRows[Len(pdfRows)][c] = Str("")

C23_Witness ==
    /\ pc = "rows"
    /\ Len(items) = 2
    /\ Len(pdfRows) = 3
    /\ pdfRows[1] # pdfRows[2]
    /\ totals.totalValue = Num(300)
    /\ pdfRows[3][6].s \in {"TOTAL", "TOTAL:"}

MergesOver(r, c) ==
    { m \in worksheet.merges : m[1] = r /\ m[2] <= c /\ c <= m[3] }

\* The columns of the signature row that hold a signature label and are not
\* preceded by a cell with the same label.
SignatureLabelColumns ==
    LET row == grid[Len(grid)]
    IN  { c \in 1..Len(row) :
            /\ row[c] \in {Str("Prepared By"), Str("Store In-Charge")}
            /\ (c > 1 => row[c - 1] # row[c]) }

\* C25: the spreadsheet renderer merges each of the three title rows across all
\* eleven columns (A to K) and merges each of the two signature labels
\* ("Prepared By", "Store In-Charge") across a small fixed span of columns of
\* the signature row.
C25_TitleAndSignatureMerges ==
    worksheet # NoWorksheet =>
        /\ \A r \in 1..3 : <<r, 1, 11>> \in worksheet.merges
        /\ Cardinality(SignatureLabelColumns) = 2
        /\ \A c \in SignatureLabelColumns :
              \E m \in MergesOver(Len(grid), c) : m[3] > m[2] /\ m[3] - m[2] < 10

InfoLabels ==
    { Str("Buyer Name :"), Str("Supplier Name:"), Str("File No :"),
      Str("Invoice No :"), Str("L/C Number :"), Str("Invoice Date :"),
      Str("Billing Date :") }

\* C26: in the five info rows of the spreadsheet every cell that holds a label
\* is bold and every cell that holds a value is not bold: the columns the
\* styling picks as bold are the columns where the labels were placed.
C26_InfoLabelsBold ==
    worksheet # NoWorksheet =>
        \A r \in 5..9 : \A c \in 1..Len(grid[r]) :
            grid[r][c] # Null =>
                (worksheet.cells[r][c].bold <=> grid[r][c] \in InfoLabels)

-----------------------------------------------------------------------------
(* Export runs: properties checked under SpecRuns *)

\* The positions in `downloads` of the files of kind k that run r produced.
FilesOf(r, k) ==
    { i \in 1..Len(downloads) : downloads[i].run = r /\ downloads[i].kind = k }

\* Run r has entered generateExcel.
InSpreadsheet(r) == runs[r].pc \in {"writing", "done"} \/ FilesOf(r, "xlsx") # {}

\* The PDF of run r is complete: saved once, before any spreadsheet of r, drawn
\* from the header, items, totals and base filename the run holds.
PdfCompleteFirst(r) ==
    /\ Cardinality(FilesOf(r, "pdf")) = 1
    /\ \A i \in FilesOf(r, "pdf") :
         /\ \A j \in FilesOf(r, "xlsx") : i < j
         /\ downloads[i].name = runs[r].baseFilename \o ".pdf"
         /\ downloads[i].info = pdfInfoBlock(variant, runs[r].header)
         /\ downloads[i].rows =
                pdfTableRows(variant, runs[r].items, runs[r].totals)

\* The spreadsheet of run r is built from the same four values.
SpreadsheetFromSameValues(r) ==
    \A j \in FilesOf(r, "xlsx") :
        /\ downloads[j].name = runs[r].baseFilename \o ".xlsx"
        /\ downloads[j].grid =
               excelGrid(variant, runs[r].header, runs[r].items, runs[r].totals)

\* The totals and the base filename of a run are those computed at its start
\* from its arguments, and no step computes them again.
TotalsComputedOnce ==
    \A r \in RunIds :
        runs[r].pc \notin {"idle", "rejected"} =>
            /\ runs'[r].totals = runs[r].totals
            /\ runs'[r].baseFilename = runs[r].baseFilename
            /\ runs[r].totals = calculateTotals(runs[r].items)
            /\ runs[r].baseFilename =
                   buildBaseFilename(runs[r].header, runs[r].totals)

\* C12: generateReports computes the totals once, then the base filename, then
\* runs the PDF renderer to completion and only then the spreadsheet renderer;
\* the spreadsheet never starts before the PDF is saved, and both renderers get
\* the same header, items, totals and base filename.
C12_PdfThenSpreadsheet ==
    /\ [](\A r \in RunIds :
            InSpreadsheet(r) => PdfCompleteFirst(r) /\ SpreadsheetFromSameValues(r))
    /\ [][TotalsComputedOnce]_vars

C12_Witness ==
    \E r \in RunIds :
        /\ runs[r].pc = "done"
        /\ FilesOf(r, "pdf") # {}
        /\ FilesOf(r, "xlsx") # {}
        /\ runs[r].items # items

\* C13: when the PDF renderer throws, at whatever step, generateReports fails
\* with that error: the spreadsheet renderer is not invoked for the run, the
\* run downloads no .xlsx file (and no .pdf file), and handleGenerate reports
\* the failure with its one generic alert; the run stays failed.
C13_PdfFailureStopsExport ==
    /\ [](\A r \in RunIds :
            runs[r].error = "generatePDF" =>
                /\ runs[r].pc = "failed"
                /\ FilesOf(r, "xlsx") = {}
                /\ FilesOf(r, "pdf") = {}
                /\ runs[r].alerts = << GenericError >>)
    /\ [][\A r \in RunIds :
            runs[r].error = "generatePDF" => runs'[r] = runs[r]]_vars

C13_Witness ==
    \E r, q \in RunIds :
        /\ runs[r].error = "generatePDF"
        /\ runs[r].pc = "failed"
        /\ runs[q].pc = "done"
        /\ Len(downloads) = 2

\* Run r failed in the spreadsheet renderer, after its PDF was saved.
SpreadsheetFailed(r) == runs[r].error \in {"generateExcel", "writeBuffer"}

\* Run q has produced both of its files, each once, from its own arguments.
BothFilesFromScratch(q) ==
    /\ Cardinality(FilesOf(q, "pdf")) = 1
    /\ Cardinality(FilesOf(q, "xlsx")) = 1
    /\ \A i \in FilesOf(q, "pdf") :
         downloads[i] \in
            { pdfFile(variant, q, runs[q].header, runs[q].items,
                      calculateTotals(runs[q].items),
                      buildBaseFilename(runs[q].header,
                                        calculateTotals(runs[q].items)), a) :
                a \in BOOLEAN }
    /\ \A j \in FilesOf(q, "xlsx") :
         downloads[j] =
            xlsxFile(variant, q, runs[q].header, runs[q].items,
                     calculateTotals(runs[q].items),
                     buildBaseFilename(runs[q].header,
                                       calculateTotals(runs[q].items)))

\* C14: when the PDF was saved and the spreadsheet renderer then fails, the
\* caller gets the failure once, as the one generic alert; the run is not
\* retried (it stays failed, with one PDF and no spreadsheet), the saved PDF
\* stays among the downloads, and an export triggered again later produces
\* both of its files from its own arguments.
C14_SpreadsheetFailureKeepsPdf ==
    /\ [](\A r \in RunIds :
            SpreadsheetFailed(r) =>
                /\ runs[r].pc = "failed"
                /\ runs[r].alerts = << GenericError >>
                /\ Cardinality(FilesOf(r, "pdf")) = 1
                /\ FilesOf(r, "xlsx") = {}
                /\ \A q \in RunIds :
                     q > r /\ runs[q].pc = "done" => BothFilesFromScratch(q))
    /\ [][/\ Len(downloads') >= Len(downloads)
          /\ SubSeq(downloads', 1, Len(downloads)) = downloads
          /\ \A r \in RunIds :
                SpreadsheetFailed(r) => runs'[r] = runs[r]]_vars

C14_Witness ==
    /\ SpreadsheetFailed(1)
    /\ FilesOf(1, "pdf") = {1}
    /\ runs[2].pc = "done"
    /\ Len(downloads) = 3
    /\ runs[2].items # runs[1].items

\* A step of an export run: a run moves or a file is downloaded.
RunStep == runs' # runs \/ downloads' # downloads

\* The header and item collection run r was invoked with.
Invoked(r) == runs[r].pc \notin {"idle", "rejected"}

\* C17: an export run leaves the header and the item collection unchanged: no
\* step of a run, successful or throwing, changes a header field, an item
\* field, the order or the number of the items, neither in the form state nor
\* in the collection the run was handed.
C17_RunLeavesInputUnchanged ==
    [][RunStep =>
         /\ header' = header
         /\ items' = items
         /\ \A r \in RunIds :
              Invoked(r) => /\ runs'[r].header = runs[r].header
                            /\ runs'[r].items = runs[r].items]_vars

C17_Witness ==
    /\ runs[1].pc = "done"
    /\ runs[2].pc = "failed"
    /\ edits = 0
    /\ header = runs[1].header /\ items = runs[1].items
    /\ header = runs[2].header /\ items = runs[2].items
    /\ Len(items) = 2

\* File i is the file its run's renderer makes of the header and items the
\* run was invoked with and of the totals of those items.
FileOfInvocation(i) ==
    LET r   == downloads[i].run
        tot == calculateTotals(runs[r].items)
        nm  == buildBaseFilename(runs[r].header, tot)
    IN IF downloads[i].kind = "pdf"
       THEN downloads[i] =
                pdfFile(variant, r, runs[r].header, runs[r].items, tot, nm,
                        downloads[i].pageAdded)
       ELSE downloads[i] =
                xlsxFile(variant, r, runs[r].header, runs[r].items, tot, nm)

\* A step that is not the invocation of run r leaves what r was invoked with;
\* a step of one run leaves the other runs and the files already made alone.
RunsIsolated ==
    /\ \A r \in RunIds :
         Invoked(r) => /\ runs'[r].header = runs[r].header
                       /\ runs'[r].items = runs[r].items
                       /\ runs'[r].totals = runs[r].totals
                       /\ runs'[r].baseFilename = runs[r].baseFilename
    /\ \A r, q \in RunIds :
         runs'[r] # runs[r] /\ q # r => runs'[q] = runs[q]
    /\ \A i \in 1..Len(downloads) :
         i <= Len(downloads') /\ downloads'[i] = downloads[i]

\* C18: each export run works on a snapshot of the header and items it was
\* invoked with: whatever edits of the form or second export happen while the
\* run is suspended at an await, both of its files show exactly the header,
\* items and totals of its invocation, and two overlapping runs do not change
\* each other's values or files.
C18_RunsWorkOnSnapshots ==
    /\ [](\A i \in 1..Len(downloads) : FileOfInvocation(i))
    /\ [][RunsIsolated]_vars

C18_Witness ==
    /\ runs[1].pc = "done"
    /\ runs[2].pc = "done"
    /\ Len(downloads) = 4
    /\ downloads[1].run = 1 /\ downloads[2].run = 2
    /\ runs[1].items # runs[2].items
    /\ items # runs[1].items

\* Files i and j have the same content: name, info block, sizing, table rows,
\* grid and row styles.  The page the signature block lands on is left out:
\* it follows from the table end autoTable reports, which is library output.
SameContent(i, j) ==
    /\ downloads[i].kind = downloads[j].kind
    /\ downloads[i].name = downloads[j].name
    /\ downloads[i].info = downloads[j].info
    /\ downloads[i].layout = downloads[j].layout
    /\ downloads[i].rows = downloads[j].rows
    /\ downloads[i].grid = downloads[j].grid
    /\ downloads[i].styles = downloads[j].styles

NearestInteger(q) ==
    CHOOSE n \in {q \div 4, q \div 4 + 1} : 4 * n - 2 <= q /\ q < 4 * n + 2

\* s contains sub as a substring.
Contains(s, sub) ==
    \E k \in 1..(Len(s) - Len(sub) + 1) : SubSeq(s, k, k + Len(sub) - 1) = sub

\* The base filename the claim gives for a run.
ClaimedBaseFilename(r) ==
    "Bill of Buyer " \o runs[r].header.buyerName
        \o " $" \o ToString(NearestInteger(runs[r].totals.totalValue.q))
        \o " DATE-" \o getFilenameDate(runs[r].header.billingDate)

\* C20: the base filename is "Bill of Buyer <buyerName> $<totalValue rounded
\* to the nearest integer> DATE-<filenameDate>"; the PDF is saved under that
\* name plus ".pdf" and the spreadsheet under the same name plus ".xlsx"; for
\* the buyer "Acme" and a total value of 1234.5 the base filename contains
\* "Acme" and "$1235".
C20_Filenames ==
    \A r \in RunIds :
        Invoked(r) =>
            /\ runs[r].baseFilename = ClaimedBaseFilename(r)
            /\ \A i \in FilesOf(r, "pdf") :
                 downloads[i].name = ClaimedBaseFilename(r) \o ".pdf"
            /\ \A j \in FilesOf(r, "xlsx") :
                 downloads[j].name = ClaimedBaseFilename(r) \o ".xlsx"
            /\ (runs[r].header.buyerName = "Acme"
                    /\ runs[r].totals.totalValue = Num(4938)) =>
                   /\ Contains(runs[r].baseFilename, "Acme")
                   /\ Contains(runs[r].baseFilename, "$1235")

C20_Witness ==
    \E r \in RunIds :
        /\ runs[r].pc = "done"
        /\ runs[r].header.buyerName = "Acme"
        /\ runs[r].totals.totalValue = Num(4938)
        /\ \E i \in FilesOf(r, "pdf") : \E j \in FilesOf(r, "xlsx") :
              /\ downloads[i].name =
                     "Bill of Buyer Acme $1235 DATE-"
                         \o getFilenameDate("2024-03-15") \o ".pdf"
              /\ downloads[j].name =
                     "Bill of Buyer Acme $1235 DATE-"
                         \o getFilenameDate("2024-03-15") \o ".xlsx"

\* Run r has ended: it resolved after both downloads, the PDF first, or it
\* rejected with an error; never both.
RunEnded(r) ==
    \/ /\ runs[r].pc = "done"
       /\ runs[r].error = ""
       /\ \E i \in FilesOf(r, "pdf") : \E j \in FilesOf(r, "xlsx") : i < j
    \/ /\ runs[r].pc = "failed"
       /\ runs[r].error # ""
       /\ FilesOf(r, "xlsx") = {}

\* C21: once triggered, an export run eventually ends in exactly one of two
\* outcomes, both downloads triggered (PDF, then spreadsheet) and the run
\* resolved or the run rejected with an error, and it stays ended; it does not
\* stay pending, font loading and serialisation each resolving or rejecting.
C21_RunEventuallyEnds ==
    /\ \A r \in RunIds : Invoked(r) ~> RunEnded(r)
    /\ [][\A r \in RunIds : RunEnded(r) => RunEnded(r)' /\ runs'[r] = runs[r]]_vars

C21_Witness ==
    /\ runs[1].pc = "done" /\ RunEnded(1)
    /\ runs[2].pc = "failed" /\ RunEnded(2)
    /\ runs[2].error = "writeBuffer"
    /\ Len(downloads) = 3

\* C22: in the PDF renderer font registration is awaited to completion before
\* any text is drawn: a run has drawn text (title, info block, table,
\* signature labels) or saved its PDF only if registerPDFFonts resolved for it,
\* and a run whose registration rejected has drawn nothing, saved no PDF and
\* failed.  The PDF is among the downloads exactly when doc.save returned.
C22_FontsBeforeText ==
    \A r \in RunIds :
        /\ (runs[r].drawn # << >> \/ FilesOf(r, "pdf") # {}) =>
               runs[r].fonts = "resolved"
        /\ runs[r].fonts \in {"pending", "rejected"} =>
               runs[r].drawn = << >> /\ FilesOf(r, "pdf") = {}
        /\ runs[r].fonts = "rejected" =>
               runs[r].pc = "failed" /\ FilesOf(r, "xlsx") = {}
        /\ (FilesOf(r, "pdf") # {}) <=>
               (\E k \in 1..Len(runs[r].drawn) : runs[r].drawn[k] = "save")

C22_Witness ==
    /\ runs[1].fonts = "rejected"
    /\ runs[1].pc = "failed"
    /\ runs[2].fonts = "resolved"
    /\ runs[2].drawn = PdfCalls
    /\ FilesOf(2, "pdf") # {}
    /\ FilesOf(1, "pdf") = {}

-----------------------------------------------------------------------------
(* Cell formats and description cells: properties checked under SpecTotals *)

\* The rows of the grid that hold an item, and the totals row.
DataRowNumbers == 12..(11 + Len(items))
TotalsRowNumber == 11 + Len(items) + 1

\* The columns of invoice quantity, received quantity, unit price and total
\* value, and the columns of description and reference number.
NumericColumns == 7..10
TextColumns == {2, 11}

\* C28: in every spreadsheet data row and in the totals row each numeric column
\* (invoice quantity, received quantity, unit price, total value) is
\* right-aligned and carries the fixed two-decimal number format, and the
\* description and reference columns of the data rows are left-aligned with
\* wrapping.
C28_ColumnFormats ==
    pc = "grid" =>
        /\ \A r \in DataRowNumbers \cup {TotalsRowNumber} : \A c \in NumericColumns :
              /\ worksheet.cells[r][c].horizontal = "right"
              /\ worksheet.cells[r][c].numFmt = "0.00"
        /\ \A r \in DataRowNumbers : \A c \in TextColumns :
              /\ worksheet.cells[r][c].horizontal = "left"
              /\ worksheet.cells[r][c].wrapText

\* A text field is present when it holds something else than blanks.
Present(s) == Trim(s) # ""

\* The annotations a description cell carries.
ColourAnnotated(cell, item) ==
    Contains(cell.s, "Color: " \o item.color)

HsAnnotated(cell, item) ==
    Contains(cell.s, "H.S Code: " \o item.hsCode)
        \/ Contains(cell.s, "HS: " \o item.hsCode)

\* The description cell of a renderer follows the presence of the two fields.
AnnotatedWhenPresent(cell, item) ==
    /\ cell.t = "str"
    /\ ColourAnnotated(cell, item) <=> Present(item.color)
    /\ HsAnnotated(cell, item) <=> Present(item.hsCode)
    /\ (~Present(item.color) /\ ~Present(item.hsCode)) => cell.s = item.itemDescription

\* C27: in both renderers the description cell of an item row carries a colour
\* annotation exactly when the colour of the item is non-blank and an HS-code
\* annotation exactly when its HS code is non-blank, and is the plain
\* description when neither is; the PDF and the spreadsheet agree, for every
\* item, on which annotations are included.
C27_DescriptionAnnotations ==
    pc = "grid" =>
        \A i \in 1..Len(items) :
            LET p == pdfRows[i][2]
                x == grid[11 + i][2]
            IN  /\ AnnotatedWhenPresent(p, items[i])
                /\ AnnotatedWhenPresent(x, items[i])
                /\ ColourAnnotated(p, items[i]) <=> ColourAnnotated(x, items[i])
                /\ HsAnnotated(p, items[i]) <=> HsAnnotated(x, items[i])

-----------------------------------------------------------------------------
(* The form and the guards of handleGenerate: properties checked under SpecForm *)

\* The three conditions under which the export may run.
ExportAllowed(hdr, its) ==
    /\ Trim(hdr.buyerName) # ""
    /\ Len(its) >= 1
    /\ Trim(hdr.billingDate) # ""

Warnings ==
    { "Please enter a Buyer Name.", "Please add at least one line item.",
      "Please set a billing date." }

\* C15: handleGenerate invokes generateReports only when the buyer name is
\* non-empty after trimming, the item list is non-empty and the billing date is
\* non-empty after trimming; in every other state the invocation shows one
\* warning, computes nothing of the export and downloads no file.
C15_ExportOnlyWhenValid ==
    /\ [][\A r \in RunIds :
            runs[r].pc = "idle" /\ runs'[r].pc # "idle" =>
                IF ExportAllowed(header, items)
                THEN /\ runs'[r].pc = "fonts"
                     /\ runs'[r].alerts = << >>
                ELSE /\ runs'[r].pc = "rejected"
                     /\ Len(runs'[r].alerts) = 1
                     /\ runs'[r].alerts[1] \in Warnings
                     /\ runs'[r].totals = NoTotals
                     /\ runs'[r].baseFilename = NoFilename
                     /\ downloads' = downloads]_vars
    /\ [](\A r \in RunIds :
            /\ runs[r].pc \notin {"idle", "rejected"} =>
                    ExportAllowed(runs[r].header, runs[r].items)
            /\ runs[r].pc = "rejected" =>
                    FilesOf(r, "pdf") = {} /\ FilesOf(r, "xlsx") = {})

C15_Witness ==
    /\ runs[1].pc = "fonts"
    /\ runs[2].pc = "rejected"
    /\ runs[2].alerts = << "Please add at least one line item." >>
    /\ items = << >>

\* C16: starting from the one-row form, after any sequence of addNewRow,
\* removeRow and handleItemChange calls, several removeRow calls against the
\* same rendered state included, the item list holds at least one item; and
\* removeRow called while exactly one item is rendered queues no removal.
C16_AtLeastOneItem ==
    /\ [](Len(items) >= 1)
    /\ [][Len(items) = 1 /\ pending' # pending /\ pending' # << >> =>
            pending'[Len(pending')].op # "filter"]_vars

\* A render step: the queued updaters are applied.
RenderStep == pending # << >> /\ pending' = << >>

\* The item lists the updaters of the queue receive as `prev`: PrevItems[k] is
\* the rendered list after the first k updaters.
RECURSIVE StatesAfter(_, _)
StatesAfter(st, q) ==
    IF q = << >> THEN << >>
    ELSE LET next == applyUpdater(st, Head(q))
         IN  << next.items >> \o StatesAfter(next, Tail(q))

PrevItems ==
    LET after == StatesAfter([header |-> header, items |-> items], pending)
    IN  [k \in 0..Len(pending) |-> IF k = 0 THEN items ELSE after[k]]

\* A row as addNewRow makes it.
IsNewRow(item) ==
    /\ item.fabricCode = "" /\ item.itemDescription = "" /\ item.color = ""
    /\ item.hsCode = "" /\ item.rcvdDate = "" /\ item.challanNo = ""
    /\ item.piNumber = "" /\ item.appstremeNo = ""
    /\ item.unit = "YDS"
    /\ item.invoiceQty = Num(0) /\ item.rcvdQty = Num(0) /\ item.unitPrice = Num(0)

\* after is before with one new row at its end.
OneRowAppended(before, after) ==
    /\ Len(after) = Len(before) + 1
    /\ \A i \in 1..Len(before) : after[i] = before[i]
    /\ IsNewRow(after[Len(after)])
    /\ \A i \in 1..Len(before) : before[i].id # after[Len(after)].id
    /\ calculateTotals(after) = calculateTotals(before)

\* C29: addNewRow appends exactly one item with blank text fields, unit "YDS"
\* and zero quantities and price at the end of the list, leaves every existing
\* item and its position unchanged, and so leaves the three totals unchanged.
C29_AddNewRowFrame ==
    /\ [][pending' # pending /\ pending' # << >>
            /\ pending'[Len(pending')].op = "append" =>
                /\ pending' = Append(pending, pending'[Len(pending')])
                /\ items' = items]_vars
    /\ [][RenderStep =>
            /\ LET prev == PrevItems
               IN  /\ items' = prev[Len(pending)]
                   /\ \A k \in 1..Len(pending) :
                         pending[k].op = "append" =>
                             OneRowAppended(prev[k - 1], prev[k])
            /\ (Len(pending) = 1 /\ pending[1].op = "append") =>
                  OneRowAppended(items, items')]_vars

C29_Witness ==
    /\ pending = << >>
    /\ Len(items) = 3
    /\ items[1].invoiceQty = Num(4938) /\ items[1].unitPrice = Num(4)
    /\ IsNewRow(items[2]) /\ IsNewRow(items[3])
    /\ calculateTotals(items).totalValue # Num(0)

\* The items of its whose id is not id, in their order.
Without(its, id) == SelectSeq(its, LAMBDA item : item.id # id)

\* after is before with the field key of the items with this id set to value.
OneFieldChanged(before, after, id, key, value) ==
    /\ Len(after) = Len(before)
    /\ \A i \in 1..Len(before) :
          IF before[i].id = id
          THEN /\ DOMAIN after[i] = DOMAIN before[i]
               /\ after[i][key] = value
               /\ \A f \in DOMAIN before[i] \ {key} : after[i][f] = before[i][f]
          ELSE after[i] = before[i]

NoItemWithId(its, id) == \A i \in 1..Len(its) : its[i].id # id

\* C30: handleItemChange(id, field, value) changes only the named field of the
\* item with that id and leaves the length, the order and every other item and
\* field unchanged; removeRow(id), called while more than one item exists,
\* removes exactly that item and keeps the order of the rest; either operation
\* with an id that matches no item leaves the list unchanged.
C30_ItemChangeAndRemoveFrame ==
    /\ [][pending' # pending /\ pending' # << >> =>
            LET u == pending'[Len(pending')]
            IN  /\ u.op \in {"map", "filter"} =>
                      /\ \E i \in 1..Len(items) : u.id = items[i].id
                      /\ items' = items
                /\ u.op = "filter" => Len(items) > 1]_vars
    /\ [][RenderStep =>
            LET prev == PrevItems
            IN  /\ items' = prev[Len(pending)]
                /\ \A k \in 1..Len(pending) :
                      LET u == pending[k]
                          before == prev[k - 1]
                          after == prev[k]
                      IN  /\ u.op = "map" =>
                                OneFieldChanged(before, after, u.id, u.key, u.value)
                          /\ u.op = "filter" =>
                                /\ after = Without(before, u.id)
                                /\ Len(after) >= Len(before) - 1
                          /\ (u.op \in {"map", "filter"}
                                  /\ NoItemWithId(before, u.id)) =>
                                after = before]_vars
    /\ [][RenderStep /\ Len(pending) = 1 =>
            LET u == pending[1]
            IN  /\ u.op = "map" =>
                      OneFieldChanged(items, items', u.id, u.key, u.value)
                /\ u.op = "filter" => items' = Without(items, u.id)]_vars

\* Two rows are rendered, the second carries an edit, and a removal of row 1
\* is queued before a change of row 1: the change finds no item.
C30_Witness ==
    /\ Len(items) = 2
    /\ items[1].id = 1 /\ items[2].id = 2
    /\ items[2].unitPrice = Num(4)
    /\ pending = << FilterItem(1), MapItem(1, "invoiceQty", Num(4938)) >>

=============================================================================
